---- MODULE Spec2Model ----
(***************************************************************************)
(* The Account Session Manager of the multi-account WhatsApp relay         *)
(* (backend/src/whatsapp/accountManager.js, class AccountManager):         *)
(* the accounts map, the active-account pointer, the persisted account     *)
(* store, the per-account automation handles with their lifecycle          *)
(* callbacks and timers, the readiness monitor and the getChats cache.     *)
(*                                                                         *)
(* JavaScript runs one callback at a time: every action below is one       *)
(* synchronous run of a handler, from its entry or from the point where an *)
(* await resumed, up to its next await or its return.                      *)
(***************************************************************************)
EXTENDS Integers, Sequences, FiniteSets, Bags, TLC

----------------------------------------------------------------------------
(* Bounds of the exploration *)

MaxCalls == 2       \* async calls suspended at the same time, and Client
                    \* objects ever constructed
MaxTimers == 2      \* setTimeout callbacks pending at the same time
CountCap == 2       \* saturation of the event counters
MaxIds == 2         \* account ids a run generates (Spec: generates or loads)
MaxTicks == 3       \* ticks of the clock
TickLen == 1500     \* milliseconds a tick of the clock adds
CapFresh == 1       \* SpecCap: account ids generated after the load
CapCalls == 1       \* SpecCap: async calls suspended at the same time; one
                    \* more Client object than that is ever constructed
MaxMsgs == 2        \* messages whose retraction a client reports
MaxChats == 2       \* chats the messages are in

(* Program constants *)

maxAccounts == 10      \* line 1218
maxRetries == 60       \* line 1790
_chatsCacheDuration == 3000     \* line 1867

----------------------------------------------------------------------------
(* Values *)

NoId == 0                        \* null / undefined; account ids are 1, 2, ...
NoHandle == 0                    \* account.client === null; clients are 1, 2, ...
NoPhone == 0                     \* account.phone === null
GivenName == 101                 \* a display name given to createAccount
NewName == 102                   \* the display name given to renameAccount
NoName == 0                      \* createAccount(undefined)
Own == 200                       \* the account's own id, as message.from of a
                                 \* message it sent; chats are 201, 202, ...

\* What getChats returns and caches: null, the literal [], or the array that
\* client h returned at time at
Null == [h |-> NoHandle, at |-> 0, chats |-> FALSE]
EmptyList == [h |-> NoHandle, at |-> 0, chats |-> TRUE]
Chats(h, t) == [h |-> h, at |-> t, chats |-> TRUE]

\* what a getChats call finds on its client: client.pupPage, typeof
\* client.getChats, client.info
NoEnv == [page |-> "none", capable |-> FALSE, info |-> FALSE]

\* line 1344: `Account ${this.accounts.size + 1}`
DefaultName(n) == n

VARIABLES
    accounts,         \* this.accounts: the Map's keys, in insertion order
    acct,             \* the account objects ever made, by id (a closure keeps
                      \* one after its removal from the map)
    activeAccountId,  \* this.activeAccountId
    nextId,           \* generateAccountId: the next fresh id
    store,            \* data/accounts.json as last written
    handles,          \* every Client constructed, by number: its owner and
                      \* whether destroy() has run on it
    nextHandle,       \* the next Client to be constructed
    calls,            \* bag of async calls suspended at an await
    timers,           \* bag of pending setTimeout callbacks
    step,             \* the handler that ran in the last step and how it ended
    emitted,          \* the events this.emit() sent during the last step
    readyCount,       \* per account: 'ready' events since its initialization began
    readyVia,         \* per account: the path that last set isReady = true
    deleted,          \* ids whose deleteAccount has completed
    swRun,            \* the switchAccount calls made in a row for one id
    seen,             \* the snapshot the last getChats call returned inside
                      \* the cache window, for which account and cache time
    track,            \* which of the five histories above this run records
    now,              \* Date.now()
    _chatsCache,      \* this._chatsCache
    _chatsCacheTime,  \* this._chatsCacheTime
    deletedMessages,  \* this.deletedMessages: the Map's values, in insertion order
    deletedFile,      \* data/deleted_messages.json as last written
    retracted         \* the retractions clients reported with the original
                      \* message: its id and the chat it was in

mgrVars == <<accounts, acct, activeAccountId, nextId, store>>
hVars == <<handles, nextHandle>>
asyncVars == <<calls, timers>>
obsVars == <<step, emitted>>
histVars == <<readyCount, readyVia, deleted, swRun, seen, track>>
chatVars == <<now, _chatsCache, _chatsCacheTime>>
ledgerVars == <<deletedMessages, deletedFile, retracted>>
vars == <<mgrVars, hVars, asyncVars, obsVars, histVars, chatVars, ledgerVars>>

----------------------------------------------------------------------------
(* Helpers *)

Range(s) == {s[i] : i \in 1..Len(s)}

Has(accountId) == accountId \in Range(accounts)

Remove(s, x) == SelectSeq(s, LAMBDA y : y # x)

Min(a, b) == IF a < b THEN a ELSE b

BagAdd(B, e) == B (+) SetToBag({e})

BagDel(B, e) == B (-) SetToBag({e})

Ev(kind, accountId) == [kind |-> kind, accountId |-> accountId]

\* lines 1718, 1758: isActive: acc.id === this.activeAccountId
IsActive(accountId) == accountId = activeAccountId

\* createAccount's object literal
NewAccount(nm, stamp) ==
    [name |-> nm, phone |-> NoPhone, createdAt |-> stamp, client |-> NoHandle,
     isReady |-> FALSE, isAuthenticated |-> FALSE, isInitializing |-> FALSE,
     qrCode |-> FALSE, hasStoredSession |-> FALSE]

saveAccountsConfig_nophone(accs, ac, active) ==
    [activeAccountId |-> active,
     accounts |-> [i \in 1..Len(accs) |->
                     [id |-> accs[i], name |-> ac[accs[i]].name,
                      phone |-> NoPhone,
                      createdAt |-> ac[accs[i]].createdAt]]]

\* saveAccountsConfig: the whole file is rewritten from the map
saveAccountsConfig(accs, ac, active) ==
    [activeAccountId |-> active,
     accounts |-> [i \in 1..Len(accs) |->
                     [id |-> accs[i], name |-> ac[accs[i]].name,
                      phone |-> ac[accs[i]].phone,
                      createdAt |-> ac[accs[i]].createdAt]]]

\* the live handles constructed for an account
LiveHandles(accountId) ==
    {h \in DOMAIN handles : handles[h].st = "live" /\ handles[h].owner = accountId}

\* what the last step was: the handler, the account it was about, how it ended
\* ("none": returned, "pending": suspended at an await, "noop", "retry", or the
\* error raised) and, for a completed deleteAccount, the pointer before it
Done(op, accountId, err) ==
    [op |-> op, acc |-> accountId, err |-> err, was |-> NoId, ret |-> Null, env |-> NoEnv]

\* no getChats call has returned a snapshot inside the cache window
NoSeen == [acc |-> NoId, snap |-> Null, time |-> 0, n |-> 0]

\* no switchAccount call made yet, or the run of calls was ended
NoRun == [id |-> NoId, calls |-> 0, inits |-> 0, made |-> 0, mine |-> {}]

----------------------------------------------------------------------------
(* History: recomputed by every action from the step it took *)

ReadyEmitted(accountId) ==
    Cardinality({i \in 1..Len(emitted') : emitted'[i] = Ev("ready", accountId)})

\* started: the accounts whose initialization began in this step (isInitializing
\* went through line 1432); gone: the ids whose deleteAccount completed
Observe(started, gone, run, sn) ==
    /\ readyCount' = [a \in DOMAIN acct' |->
           IF "ready" \notin track \/ a \in started \/ a \notin DOMAIN acct THEN 0
           ELSE Min(CountCap, readyCount[a] + ReadyEmitted(a))]
    /\ readyVia' = [a \in DOMAIN acct' |->
           IF "ready" \notin track \/ a \in started \/ a \notin DOMAIN acct
              \/ ~acct'[a].isReady
           THEN "none"
           ELSE IF ~acct[a].isReady THEN step'.op
           ELSE readyVia[a]]
    /\ deleted' = IF "deleted" \in track THEN deleted \cup gone ELSE deleted
    /\ swRun' = IF "run" \in track THEN run ELSE swRun
    /\ seen' = IF "chats" \in track THEN sn ELSE seen
    /\ UNCHANGED track

\* a step outside the retraction handler: it leaves the ledger alone
Record(started, gone, run, sn) ==
    /\ UNCHANGED ledgerVars
    /\ Observe(started, gone, run, sn)

\* a step outside getChats: it reads no clock and leaves the chats cache alone
HistRun(started, gone, run) ==
    /\ UNCHANGED chatVars
    /\ Record(started, gone, run, seen)

\* a step that ends the run of switchAccount calls: another operation, or a
\* lifecycle event of a client
Hist(started, gone) == HistRun(started, gone, NoRun)

\* a step that leaves the run as it is: the expiry of a timer
HistKeep(started, gone) == HistRun(started, gone, swRun)

\* a switchAccount(accountId) call extends the run made for the same id: inits
\* the initializations it started, made the clients it constructed, rec the
\* call it left suspended
RunCall(accountId, inits, made, rec) ==
    IF swRun.id = accountId
    THEN [id |-> accountId, calls |-> Min(CountCap, swRun.calls + 1),
          inits |-> Min(CountCap, swRun.inits + inits),
          made |-> Min(CountCap, swRun.made + made),
          mine |-> swRun.mine \cup rec]
    ELSE [id |-> accountId, calls |-> 1, inits |-> inits, made |-> made, mine |-> rec]

\* the suspended call c resumed, constructed made clients and is suspended
\* again as the calls of rec: counted when a call of the run started it
RunCont(c, made, rec) ==
    IF c \in swRun.mine
    THEN [swRun EXCEPT !.made = Min(CountCap, @ + made),
                       !.mine = (@ \ {c}) \cup rec]
    ELSE swRun

----------------------------------------------------------------------------
(* Construction: the constructor loads data/accounts.json when it exists *)

\* loadAccountsConfig on a file holding accounts 1..k with `active` as pointer
loadAccountsConfig(k, active, sessions) ==
    /\ accounts = [i \in 1..k |-> i]
    /\ acct = [a \in 1..k |->
                 [NewAccount(GivenName, a) EXCEPT !.hasStoredSession = (a \in sessions)]]
    /\ activeAccountId = active
    /\ nextId = k + 1
    /\ store = saveAccountsConfig(accounts, acct, activeAccountId)

\* the rest of the constructor; file is what data/deleted_messages.json holds
\* (loadDeletedMessages, lines 1237-1247)
InitRestWith(tracked, file) ==
    /\ track = tracked
    /\ handles = <<>>
    /\ nextHandle = 1
    /\ calls = EmptyBag
    /\ timers = EmptyBag
    /\ step = Done("constructor", NoId, "none")
    /\ emitted = <<>>
    /\ readyCount = [a \in DOMAIN acct |-> 0]
    /\ readyVia = [a \in DOMAIN acct |-> "none"]
    /\ deleted = {}
    /\ swRun = NoRun
    /\ seen = NoSeen
    /\ now = 0
    /\ _chatsCache = Null
    /\ _chatsCacheTime = 0
    /\ deletedMessages = file
    /\ deletedFile = file
    /\ retracted = {}

\* no ledger file yet
InitRest(tracked) == InitRestWith(tracked, <<>>)

Init ==
    /\ \E k \in 0..MaxIds :
         loadAccountsConfig(k, IF k = 0 THEN NoId ELSE 1, {})
    /\ InitRest({})

----------------------------------------------------------------------------
(* createAccount, lines 1336-1365 *)

\* line 1337
AtCapacity_gt(size) == size > maxAccounts

AtCapacity(size) == size >= maxAccounts

createAccount(name) ==
    IF AtCapacity(Len(accounts))
    THEN /\ step' = Done("createAccount", NoId, "CapacityExceeded")
         /\ emitted' = <<>>
         /\ UNCHANGED <<mgrVars, hVars, asyncVars>>
         /\ Hist({}, {})
    ELSE LET id == nextId
             nm == IF name = NoName THEN DefaultName(Len(accounts) + 1) ELSE name
             ac == (id :> NewAccount(nm, id)) @@ acct
             accs == Append(accounts, id)
             active == IF Len(accs) = 1 THEN id ELSE activeAccountId
         IN  /\ acct' = ac
             /\ accounts' = accs
             /\ activeAccountId' = active
             /\ nextId' = nextId + 1
             /\ store' = saveAccountsConfig(accs, ac, active)
             /\ step' = Done("createAccount", id, "none")
             /\ emitted' = <<Ev("account_created", id)>>
             /\ UNCHANGED <<hVars, asyncVars>>
             /\ Hist({}, {})

----------------------------------------------------------------------------
(* deleteAccount, lines 1370-1402 *)

ReassignActive_keep(accs, active, accountId) == active

ReassignActive_null(accs, active, accountId) ==
    IF active = accountId THEN NoId ELSE active

\* lines 1394-1398: the pointer moves to the first remaining key, or to null
ReassignActive(accs, active, accountId) ==
    IF active = accountId
    THEN (IF Len(accs) > 0 THEN accs[1] ELSE NoId)
    ELSE active

\* lines 1386-1401, after the teardown: the account leaves the map
DeleteFinish(accountId, cs, hs) ==
    LET accs == Remove(accounts, accountId)
        active == ReassignActive(accs, activeAccountId, accountId)
    IN  /\ accounts' = accs
        /\ activeAccountId' = active
        /\ store' = saveAccountsConfig(accs, acct, active)
        /\ calls' = cs
        /\ handles' = hs
        /\ step' = [Done("deleteAccount", accountId, "none") EXCEPT !.was = activeAccountId]
        /\ emitted' = <<Ev("account_deleted", accountId)>>
        /\ UNCHANGED <<acct, nextId, nextHandle, timers>>
        /\ Hist({}, {accountId})

deleteAccount(accountId) ==
    IF ~Has(accountId)
    THEN /\ step' = Done("deleteAccount", accountId, "NotFound")
         /\ emitted' = <<>>
         /\ UNCHANGED <<mgrVars, hVars, asyncVars>>
         /\ Hist({}, {})
    ELSE IF acct[accountId].client = NoHandle
    THEN DeleteFinish(accountId, calls, handles)
    ELSE \* line 1379: await account.client.logout()
         /\ calls' = BagAdd(calls, [op |-> "deleteAccount", acc |-> accountId,
                                    at |-> "logout", h |-> acct[accountId].client,
                                    via |-> "direct", n |-> 0])
         /\ step' = Done("deleteAccount", accountId, "pending")
         /\ emitted' = <<>>
         /\ UNCHANGED <<mgrVars, hVars, timers>>
         /\ Hist({}, {})

\* logout() resolved: line 1380 awaits destroy() of the client the account holds now
deleteAccount_logout_ok(c) ==
    /\ c \in BagToSet(calls) /\ c.op = "deleteAccount" /\ c.at = "logout"
    /\ calls' = BagAdd(BagDel(calls, c), [c EXCEPT !.at = "destroy", !.h = acct[c.acc].client])
    /\ step' = Done("deleteAccount", c.acc, "pending")
    /\ emitted' = <<>>
    /\ UNCHANGED <<mgrVars, hVars, timers>>
    /\ Hist({}, {})

deleteAccount_logout_raise(c) ==
    /\ c \in BagToSet(calls) /\ c.op = "deleteAccount" /\ c.at = "logout"
    /\ calls' = BagDel(calls, c)
    /\ step' = Done("deleteAccount", c.acc, "LogoutFailed")
    /\ emitted' = <<>>
    /\ UNCHANGED <<mgrVars, hVars, timers>>
    /\ Hist({}, {})

\* logout() rejected: the catch of line 1381 skips destroy()
deleteAccount_logout_throw(c) ==
    /\ c \in BagToSet(calls) /\ c.op = "deleteAccount" /\ c.at = "logout"
    /\ DeleteFinish(c.acc, BagDel(calls, c), handles)

\* destroy() settled (a rejection is caught and logged): the handle is torn down
deleteAccount_destroyed(c) ==
    /\ c \in BagToSet(calls) /\ c.op = "deleteAccount" /\ c.at = "destroy"
    /\ DeleteFinish(c.acc, BagDel(calls, c), [handles EXCEPT ![c.h].st = "destroyed"])

----------------------------------------------------------------------------
(* renameAccount, lines 1407-1416 *)

renameAccount(accountId, newName) ==
    IF ~Has(accountId)
    THEN /\ step' = Done("renameAccount", accountId, "NotFound")
         /\ emitted' = <<>>
         /\ UNCHANGED <<mgrVars, hVars, asyncVars>>
         /\ Hist({}, {})
    ELSE LET ac == [acct EXCEPT ![accountId].name = newName]
         IN  /\ acct' = ac
             /\ store' = saveAccountsConfig(accounts, ac, activeAccountId)
             /\ step' = Done("renameAccount", accountId, "none")
             /\ emitted' = <<Ev("account_renamed", accountId)>>
             /\ UNCHANGED <<accounts, activeAccountId, nextId, hVars, asyncVars>>
             /\ Hist({}, {})

----------------------------------------------------------------------------
(* initializeAccount, lines 1421-1621 *)

InitBegin_noflag(ac, accountId) == ac

InitBegin_all(ac, accountId) == [a \in DOMAIN ac |-> [ac[a] EXCEPT !.isInitializing = TRUE]]

\* line 1432
InitBegin(ac, accountId) == [ac EXCEPT ![accountId].isInitializing = TRUE]

\* lines 1447-1470: new Client(...), account.client = client
NewClient(ac, accountId, h) == [ac EXCEPT ![accountId].client = h]

\* an async call suspended at an await: at names the await, h the client it
\* waits on, via the caller, n the retryCount of a monitor pass
Suspended(op, accountId, at, h, via) ==
    [op |-> op, acc |-> accountId, at |-> at, h |-> h, via |-> via, n |-> 0]

\* lines 1432-1613 up to the first await, for an account that passed the guards;
\* ac holds the account objects, via tells switchAccount's call from a direct one
InitStart(ac, accountId, via) ==
    /\ IF ac[accountId].client # NoHandle
       THEN \* line 1437: await account.client.destroy()
            /\ acct' = InitBegin(ac, accountId)
            /\ calls' = BagAdd(calls, Suspended("initializeAccount", accountId,
                                                "destroy", ac[accountId].client, via))
            /\ UNCHANGED hVars
       ELSE \* line 1613: await client.initialize()
            /\ acct' = NewClient(InitBegin(ac, accountId), accountId, nextHandle)
            /\ handles' = Append(handles, [st |-> "live", owner |-> accountId])
            /\ nextHandle' = nextHandle + 1
            /\ calls' = BagAdd(calls, Suspended("initializeAccount", accountId,
                                                "handshake", nextHandle, via))
    /\ emitted' = <<>>
    /\ UNCHANGED <<accounts, nextId, timers>>

initializeAccount(accountId) ==
    IF ~Has(accountId)
    THEN /\ step' = Done("initializeAccount", accountId, "NotFound")
         /\ emitted' = <<>>
         /\ UNCHANGED <<mgrVars, hVars, asyncVars>>
         /\ Hist({}, {})
    ELSE IF acct[accountId].isInitializing
    THEN \* lines 1427-1430: already initializing, nothing is done
         /\ step' = Done("initializeAccount", accountId, "noop")
         /\ emitted' = <<>>
         /\ UNCHANGED <<mgrVars, hVars, asyncVars>>
         /\ Hist({}, {})
    ELSE /\ InitStart(acct, accountId, "direct")
         /\ step' = Done("initializeAccount", accountId, "pending")
         /\ UNCHANGED <<activeAccountId, store>>
         /\ Hist({accountId}, {})

\* destroy() of the old client settled (a rejection is caught and logged, lines
\* 1438-1440); the call goes on to construct the new client
initializeAccount_destroyed(c) ==
    /\ c \in BagToSet(calls) /\ c.op = "initializeAccount" /\ c.at = "destroy"
    /\ acct' = NewClient(acct, c.acc, nextHandle)
    /\ handles' = Append([handles EXCEPT ![c.h].st = "destroyed"],
                          [st |-> "live", owner |-> c.acc])
    /\ nextHandle' = nextHandle + 1
    /\ calls' = BagAdd(BagDel(calls, c), [c EXCEPT !.at = "handshake", !.h = nextHandle])
    /\ step' = Done(c.op, c.acc, "pending")
    /\ emitted' = <<>>
    /\ UNCHANGED <<accounts, activeAccountId, nextId, store, timers>>
    /\ HistRun({}, {}, RunCont(c, 1, {[c EXCEPT !.at = "handshake", !.h = nextHandle]}))

\* client.initialize() resolved, line 1614; switchAccount then emits, line 1656
initializeAccount_resolved(c) ==
    /\ c \in BagToSet(calls) /\ c.op = "initializeAccount" /\ c.at = "handshake"
    /\ calls' = BagDel(calls, c)
    /\ step' = Done(IF c.via = "switch" THEN "switchAccount" ELSE c.op, c.acc, "none")
    /\ emitted' = IF c.via = "switch" THEN <<Ev("account_switched", c.acc)>> ELSE <<>>
    /\ UNCHANGED <<mgrVars, hVars, timers>>
    /\ HistRun({}, {}, RunCont(c, 0, {}))

initializeAccount_rejected_keep(c) ==
    /\ c \in BagToSet(calls) /\ c.op = "initializeAccount" /\ c.at = "handshake"
    /\ calls' = BagDel(calls, c)
    /\ step' = Done(IF c.via = "switch" THEN "switchAccount" ELSE c.op, c.acc,
                    "InitializationFailed")
    /\ emitted' = <<>>
    /\ UNCHANGED <<mgrVars, hVars, timers>>
    /\ Hist({}, {})

\* client.initialize() rejected: the catch of lines 1616-1620
initializeAccount_rejected(c) ==
    /\ c \in BagToSet(calls) /\ c.op = "initializeAccount" /\ c.at = "handshake"
    /\ calls' = BagDel(calls, c)
    /\ acct' = [acct EXCEPT ![c.acc].isInitializing = FALSE]
    /\ step' = Done(IF c.via = "switch" THEN "switchAccount" ELSE c.op, c.acc,
                    "InitializationFailed")
    /\ emitted' = <<>>
    /\ UNCHANGED <<accounts, activeAccountId, nextId, store, hVars, timers>>
    /\ Hist({}, {})

----------------------------------------------------------------------------
(* switchAccount, lines 1626-1658 *)

SwitchNeedsInit_first(a) == a.client = NoHandle /\ ~a.isInitializing

\* lines 1647 and 1650: the two conditions under which the switch initializes
SwitchNeedsInit(a) ==
    \/ a.client = NoHandle /\ ~a.isInitializing
    \/ a.client # NoHandle /\ ~a.isReady /\ ~a.isInitializing

switchAccount_late(accountId) ==
    /\ ~Has(accountId)
    /\ activeAccountId' = accountId
    /\ store' = saveAccountsConfig(accounts, acct, accountId)
    /\ step' = Done("switchAccount", accountId, "NotFound")
    /\ emitted' = <<>>
    /\ UNCHANGED <<accounts, acct, nextId, hVars, asyncVars>>
    /\ Hist({}, {})

switchAccount(accountId) ==
    IF ~Has(accountId)
    THEN /\ step' = Done("switchAccount", accountId, "NotFound")
         /\ emitted' = <<>>
         /\ UNCHANGED <<mgrVars, hVars, asyncVars>>
         /\ Hist({}, {})
    ELSE /\ activeAccountId' = accountId
         /\ store' = saveAccountsConfig(accounts, acct, accountId)
         /\ IF SwitchNeedsInit(acct[accountId])
            THEN /\ InitStart(acct, accountId, "switch")
                 /\ step' = Done("switchAccount", accountId, "pending")
                 /\ HistRun({accountId}, {},
                            RunCall(accountId, 1, Len(handles') - Len(handles),
                                    BagToSet(calls' (-) calls)))
            ELSE /\ step' = Done("switchAccount", accountId, "none")
                 /\ emitted' = <<Ev("account_switched", accountId)>>
                 /\ UNCHANGED <<accounts, acct, nextId, hVars, asyncVars>>
                 /\ HistRun({}, {}, RunCall(accountId, 0, 0, {}))

----------------------------------------------------------------------------
(* The lifecycle callbacks initializeAccount registers on the client it      *)
(* constructs, lines 1473-1611. Each closes over the account object and the  *)
(* client; a client emits while destroy() has not run on it.                 *)

Emits(h) == h \in DOMAIN handles /\ handles[h].st = "live"

\* client.info.wid.user: the identity the client reports
PhoneOf(h) == handles[h].owner

\* an account event handler that changes the account object only
Handler(op, h, ac, evs) ==
    /\ acct' = ac
    /\ store' = IF \E a \in DOMAIN acct : ac[a].phone # acct[a].phone
                THEN saveAccountsConfig(accounts, ac, activeAccountId)
                ELSE store
    /\ step' = Done(op, handles[h].owner, "none")
    /\ emitted' = evs
    /\ UNCHANGED <<accounts, activeAccountId, nextId, hVars, calls>>

\* lines 1478-1482
on_qr(h) ==
    /\ Emits(h)
    /\ LET a == handles[h].owner
       IN  /\ Handler("on_qr", h, [acct EXCEPT ![a].qrCode = TRUE], <<Ev("qr", a)>>)
           /\ UNCHANGED timers
           /\ Hist({}, {})

\* lines 1503-1520, up to the await of the settling delay
on_ready(h, info) ==
    /\ Emits(h)
    /\ LET a == handles[h].owner
           ac == [acct EXCEPT ![a].isAuthenticated = TRUE, ![a].qrCode = FALSE,
                              ![a].phone = IF info THEN PhoneOf(h) ELSE @]
       IN  /\ acct' = ac
           /\ store' = IF info THEN saveAccountsConfig(accounts, ac, activeAccountId)
                       ELSE store
           /\ timers' = BagAdd(timers, [kind |-> "settle", acc |-> a, n |-> 0])
           /\ step' = Done("on_ready", a, "pending")
           /\ emitted' = <<>>
           /\ UNCHANGED <<accounts, activeAccountId, nextId, hVars, calls>>
           /\ Hist({}, {})

\* lines 1522-1524: the settling delay of line 1520 elapsed
ReadyAfterSettle(ac, a) == [ac EXCEPT ![a].isReady = TRUE, ![a].isInitializing = FALSE]

on_ready_settled(t) ==
    /\ t \in BagToSet(timers) /\ t.kind = "settle"
    /\ timers' = BagDel(timers, t)
    /\ acct' = ReadyAfterSettle(acct, t.acc)
    /\ step' = Done("on_ready", t.acc, "none")
    /\ emitted' = <<Ev("ready", t.acc)>>
    /\ UNCHANGED <<accounts, activeAccountId, nextId, store, hVars, calls>>
    /\ HistKeep({}, {})

\* lines 1528-1535
on_authenticated(h) ==
    /\ Emits(h)
    /\ LET a == handles[h].owner
       IN  /\ Handler("on_authenticated", h, [acct EXCEPT ![a].isAuthenticated = TRUE],
                      <<Ev("authenticated", a)>>)
           /\ timers' = BagAdd(timers, [kind |-> "monitor", acc |-> a, n |-> 0])
           /\ Hist({}, {})

\* lines 1538-1543
on_auth_failure(h) ==
    /\ Emits(h)
    /\ LET a == handles[h].owner
       IN  /\ Handler("on_auth_failure", h,
                      [acct EXCEPT ![a].isAuthenticated = FALSE, ![a].isInitializing = FALSE],
                      <<Ev("auth_failure", a)>>)
           /\ UNCHANGED timers
           /\ Hist({}, {})

\* lines 1546-1551
on_disconnected(h) ==
    /\ Emits(h)
    /\ LET a == handles[h].owner
       IN  /\ Handler("on_disconnected", h,
                      [acct EXCEPT ![a].isReady = FALSE, ![a].isAuthenticated = FALSE],
                      <<Ev("disconnected", a)>>)
           /\ UNCHANGED timers
           /\ Hist({}, {})

\* lines 1556-1575: the fast path of the message handler
MessageFastPath(ac, a, h, info) ==
    IF ~ac[a].isReady /\ ac[a].isAuthenticated
    THEN [ac EXCEPT ![a].isReady = TRUE, ![a].isInitializing = FALSE,
                    ![a].phone = IF @ = NoPhone /\ info THEN PhoneOf(h) ELSE @]
    ELSE ac

\* lines 1554-1577
on_message(h, info) ==
    /\ Emits(h)
    /\ LET a == handles[h].owner
           fast == ~acct[a].isReady /\ acct[a].isAuthenticated
       IN  /\ Handler("on_message", h, MessageFastPath(acct, a, h, info),
                      (IF fast THEN <<Ev("ready", a)>> ELSE <<>>) \o <<Ev("message", a)>>)
           /\ UNCHANGED timers
           /\ Hist({}, {})

----------------------------------------------------------------------------
(* checkAndSetReady, lines 1789-1861: one pass of the readiness monitor *)

PageStates == {"absent", "closed", "throws", "open"}

Reschedule_forever(ts, accountId, retryCount) ==
    BagAdd(ts, [kind |-> "monitor", acc |-> accountId,
                n |-> Min(maxRetries, retryCount + 1)])

\* lines 1798, 1807, 1816, 1823, 1832, 1852, 1858: the pass reschedules itself
Reschedule(ts, accountId, retryCount) ==
    IF retryCount < maxRetries
    THEN BagAdd(ts, [kind |-> "monitor", acc |-> accountId, n |-> retryCount + 1])
    ELSE ts

\* how a pass that did not promote ends: with another pass scheduled, or, at
\* retryCount = maxRetries, with nothing
Unpromoted(retryCount) == IF retryCount < maxRetries THEN "retry" ELSE "exhausted"

\* lines 1793-1835: the checks made before the probe; TRUE when the pass goes on
\* to call client.getChats()
ProbePossible(a, page, capable) ==
    /\ a.client # NoHandle
    /\ page = "open"
    /\ capable

\* a due timer runs checkAndSetReady(accountId, retryCount); page and capable are
\* what client.pupPage and typeof client.getChats show during this pass
checkAndSetReady(t, page, capable) ==
    /\ t \in BagToSet(timers) /\ t.kind = "monitor"
    /\ LET a == t.acc
           ts == BagDel(timers, t)
       IN  IF ~Has(a) \/ acct[a].isReady
           THEN \* line 1793
                /\ timers' = ts
                /\ step' = Done("checkAndSetReady", a, "noop")
                /\ UNCHANGED calls
           ELSE IF ~ProbePossible(acct[a], page, capable)
           THEN /\ timers' = Reschedule(ts, a, t.n)
                /\ step' = Done("checkAndSetReady", a, Unpromoted(t.n))
                /\ UNCHANGED calls
           ELSE \* line 1838: await account.client.getChats()
                /\ timers' = ts
                /\ calls' = BagAdd(calls, [op |-> "checkAndSetReady", acc |-> a,
                                           at |-> "probe", h |-> acct[a].client,
                                           via |-> "timer", n |-> t.n])
                /\ step' = Done("checkAndSetReady", a, "pending")
    /\ emitted' = <<>>
    /\ UNCHANGED <<mgrVars, hVars>>
    /\ HistKeep({}, {})

\* lines 1839-1848: the probe returned an array
Promote(ac, a, info) ==
    [ac EXCEPT ![a].phone = IF info THEN PhoneOf(ac[a].client) ELSE @,
               ![a].isReady = TRUE, ![a].isInitializing = FALSE]

\* the probe of line 1838 settled: it returned an array, something else, or threw
checkAndSetReady_probed(c, outcome, info) ==
    /\ c \in BagToSet(calls) /\ c.op = "checkAndSetReady"
    /\ calls' = BagDel(calls, c)
    /\ IF outcome = "array"
       THEN LET ac == Promote(acct, c.acc, info)
            IN  /\ acct' = ac
                /\ store' = IF info THEN saveAccountsConfig(accounts, ac, activeAccountId)
                            ELSE store
                /\ emitted' = <<Ev("ready", c.acc)>>
                /\ step' = Done("checkAndSetReady", c.acc, "none")
                /\ UNCHANGED timers
       ELSE /\ timers' = Reschedule(timers, c.acc, c.n)
            /\ emitted' = <<>>
            /\ step' = Done("checkAndSetReady", c.acc, Unpromoted(c.n))
            /\ UNCHANGED <<acct, store>>
    /\ UNCHANGED <<accounts, activeAccountId, nextId, hVars>>
    /\ HistKeep({}, {})

----------------------------------------------------------------------------
(* getChats, lines 1865-1949, with the cache it keeps for the whole manager  *)

\* lines 1663-1668: getActiveAccount
getActiveAccount == IF Has(activeAccountId) THEN activeAccountId ELSE NoId

\* line 1884
NotAuthenticated(a) == ~a.isReady /\ ~a.isAuthenticated

CacheValid_off(t) == FALSE

\* line 1890
CacheValid(t) == _chatsCache.chats /\ (t - _chatsCacheTime) < _chatsCacheDuration

StaleOrEmpty_null == _chatsCache

\* lines 1898, 1904, 1908, 1914, 1922, 1926, 1947: this._chatsCache || []
StaleOrEmpty == IF _chatsCache.chats THEN _chatsCache ELSE EmptyList

\* lines 1896-1927: the checks on the client that end the call without a fetch
NoFetch(env) == env.page # "open" \/ ~env.capable \/ ~env.info

\* the call returns value without an await
Returned(a, value, env, sn) ==
    /\ step' = [Done("getChats", a, "none") EXCEPT !.ret = value, !.env = env]
    /\ emitted' = <<>>
    /\ UNCHANGED <<mgrVars, hVars, asyncVars, chatVars>>
    /\ Record({}, {}, NoRun, sn)

\* the snapshot a call returned inside the cache window
Seen(a, snap, time) ==
    [acc |-> a, snap |-> snap, time |-> time,
     n |-> IF seen.acc = a /\ seen.snap = snap /\ seen.time = time
           THEN Min(CountCap, seen.n + 1) ELSE 1]

\* lines 1869-1929, up to the await of client.getChats()
getChats(env) ==
    LET a == getActiveAccount
    IN  IF a = NoId THEN Returned(a, EmptyList, env, NoSeen)
        ELSE IF acct[a].client = NoHandle THEN Returned(a, EmptyList, env, NoSeen)
        ELSE IF NotAuthenticated(acct[a]) THEN Returned(a, EmptyList, env, NoSeen)
        ELSE IF CacheValid(now)
        THEN Returned(a, _chatsCache, env, Seen(a, _chatsCache, _chatsCacheTime))
        ELSE IF NoFetch(env) THEN Returned(a, StaleOrEmpty, env, NoSeen)
        ELSE /\ calls' = BagAdd(calls, [op |-> "getChats", acc |-> a, at |-> "fetch",
                                        h |-> acct[a].client, via |-> "direct",
                                        n |-> now])
             /\ step' = [Done("getChats", a, "pending") EXCEPT !.env = env]
             /\ emitted' = <<>>
             /\ UNCHANGED <<mgrVars, hVars, timers, chatVars>>
             /\ Record({}, {}, NoRun, seen)

\* lines 1929-1943: client.getChats() resolved with the array chats; c.n is the
\* `now` the call read at line 1889
FetchResolved(c, chats) ==
    /\ c \in BagToSet(calls) /\ c.op = "getChats"
    /\ Emits(c.h)
    /\ LET promote == ~acct[c.acc].isReady
       IN  /\ calls' = BagDel(calls, c)
           /\ _chatsCache' = chats
           /\ _chatsCacheTime' = c.n
           /\ acct' = IF promote
                      THEN [acct EXCEPT ![c.acc].isReady = TRUE,
                                        ![c.acc].isInitializing = FALSE]
                      ELSE acct
           /\ emitted' = IF promote THEN <<Ev("ready", c.acc)>> ELSE <<>>
           /\ step' = [Done("getChats", c.acc, "fetched") EXCEPT !.ret = chats]
           /\ UNCHANGED <<accounts, activeAccountId, nextId, store, hVars, timers, now>>
           /\ Record({}, {}, NoRun, Seen(c.acc, chats, c.n))

\* client.getChats() resolved with the client's chats
getChats_fetched(c) == FetchResolved(c, Chats(c.h, now))

\* the array client h returns at time t for an account that has no chat: [],
\* which is an array and, as every object, truthy
NoChats(h, t) == [h |-> h, at |-> t, chats |-> TRUE, length |-> 0]

\* client.getChats() resolved with an empty array
getChats_fetched_empty(c) == FetchResolved(c, NoChats(c.h, now))

\* lines 1944-1948: client.getChats() rejected
getChats_caught(c) ==
    /\ c \in BagToSet(calls) /\ c.op = "getChats"
    /\ calls' = BagDel(calls, c)
    /\ step' = [Done("getChats", c.acc, "caught") EXCEPT !.ret = StaleOrEmpty]
    /\ emitted' = <<>>
    /\ UNCHANGED <<mgrVars, hVars, timers, chatVars>>
    /\ Record({}, {}, NoRun, NoSeen)

\* time passes
Tick ==
    /\ now' = now + TickLen
    /\ step' = Done("tick", NoId, "none")
    /\ emitted' = <<>>
    /\ UNCHANGED <<mgrVars, hVars, asyncVars, _chatsCache, _chatsCacheTime>>
    /\ Record({}, {}, swRun, seen)

\* what a call may find on its client: all in place, or one thing missing
ClientUp == [page |-> "open", capable |-> TRUE, info |-> TRUE]

Envs ==
    {ClientUp, [ClientUp EXCEPT !.capable = FALSE], [ClientUp EXCEPT !.info = FALSE]}
        \cup {[ClientUp EXCEPT !.page = p] : p \in PageStates \ {"open"}}

----------------------------------------------------------------------------
(* getAccountStatus, lines 1725-1760 *)

\* lines 1732-1748: the flag is set right when the client shows its identity
\* (info: client.info && client.info.wid)
FixReady(ac, a, info) ==
    IF ac[a].client # NoHandle /\ ac[a].isAuthenticated /\ ~ac[a].isReady /\ info
    THEN [ac EXCEPT ![a].isReady = TRUE, ![a].isInitializing = FALSE,
                    ![a].phone = IF @ = NoPhone THEN PhoneOf(ac[a].client) ELSE @]
    ELSE ac

\* lines 1750-1759: the object returned for an account
AccountStatus(ac, a) ==
    [id |-> a, name |-> ac[a].name, phone |-> ac[a].phone,
     isReady |-> ac[a].isReady, isAuthenticated |-> ac[a].isAuthenticated,
     isInitializing |-> ac[a].isInitializing, hasQR |-> ac[a].qrCode,
     isActive |-> IsActive(a)]

getAccountStatus(accountId, info) ==
    IF ~Has(accountId)
    THEN /\ step' = Done("getAccountStatus", accountId, "null")
         /\ emitted' = <<>>
         /\ UNCHANGED <<mgrVars, hVars, asyncVars>>
         /\ Hist({}, {})
    ELSE LET ac == FixReady(acct, accountId, info)
         IN  /\ acct' = ac
             /\ store' = IF ac[accountId].phone # acct[accountId].phone
                         THEN saveAccountsConfig(accounts, ac, activeAccountId)
                         ELSE store
             /\ step' = Done("getAccountStatus", accountId, "none")
             /\ emitted' = <<>>
             /\ UNCHANGED <<accounts, activeAccountId, nextId, hVars, asyncVars>>
             /\ Hist({}, {})

----------------------------------------------------------------------------
(* getAllAccounts, lines 1688-1720, and logoutAccount, lines 1773-1784 *)

\* lines 1690-1707: the fix of getAccountStatus, for every account of the map;
\* withInfo: the accounts whose client shows its identity
FixAll(ac, withInfo) ==
    [a \in DOMAIN ac |->
        IF Has(a) THEN FixReady(ac, a, a \in withInfo)[a] ELSE ac[a]]

getAllAccounts(withInfo) ==
    LET ac == FixAll(acct, withInfo)
    IN  /\ acct' = ac
        /\ store' = IF \E a \in DOMAIN acct : ac[a].phone # acct[a].phone
                    THEN saveAccountsConfig(accounts, ac, activeAccountId)
                    ELSE store
        /\ step' = Done("getAllAccounts", NoId, "none")
        /\ emitted' = <<>>
        /\ UNCHANGED <<accounts, activeAccountId, nextId, hVars, asyncVars>>
        /\ Hist({}, {})

\* lines 1773-1779, up to await account.client.logout()
logoutAccount(accountId) ==
    /\ IF ~Has(accountId) \/ acct[accountId].client = NoHandle
       THEN /\ step' = Done("logoutAccount", accountId, "NotInitialized")
            /\ UNCHANGED calls
       ELSE /\ calls' = BagAdd(calls, Suspended("logoutAccount", accountId, "logout",
                                                acct[accountId].client, "direct"))
            /\ step' = Done("logoutAccount", accountId, "pending")
    /\ emitted' = <<>>
    /\ UNCHANGED <<mgrVars, hVars, timers>>
    /\ Hist({}, {})

logoutAccount_resolved_flags(c) ==
    /\ c \in BagToSet(calls) /\ c.op = "logoutAccount"
    /\ acct' = [acct EXCEPT ![c.acc].isReady = FALSE, ![c.acc].isAuthenticated = FALSE]
    /\ calls' = BagDel(calls, c)
    /\ step' = Done("logoutAccount", c.acc, "none")
    /\ emitted' = <<>>
    /\ UNCHANGED <<accounts, activeAccountId, nextId, store, hVars, timers>>
    /\ Hist({}, {})

\* lines 1780-1783: logout() resolved
logoutAccount_resolved(c) ==
    /\ c \in BagToSet(calls) /\ c.op = "logoutAccount"
    /\ LET ac == [acct EXCEPT ![c.acc].isReady = FALSE,
                              ![c.acc].isAuthenticated = FALSE,
                              ![c.acc].phone = NoPhone]
       IN  /\ acct' = ac
           /\ store' = saveAccountsConfig(accounts, ac, activeAccountId)
    /\ calls' = BagDel(calls, c)
    /\ step' = Done("logoutAccount", c.acc, "none")
    /\ emitted' = <<>>
    /\ UNCHANGED <<accounts, activeAccountId, nextId, hVars, timers>>
    /\ Hist({}, {})

\* logout() rejected: the error goes to the caller
logoutAccount_rejected(c) ==
    /\ c \in BagToSet(calls) /\ c.op = "logoutAccount"
    /\ calls' = BagDel(calls, c)
    /\ step' = Done("logoutAccount", c.acc, "LogoutFailed")
    /\ emitted' = <<>>
    /\ UNCHANGED <<mgrVars, hVars, timers>>
    /\ Hist({}, {})

----------------------------------------------------------------------------
(* A new process: the constructor, lines 1214-1234, loads the account store  *)
(* and the ledger that the process before it wrote                           *)

OrNull_null(v) == NoPhone

\* lines 1280, 1294: data.activeAccountId || null, acc.phone || null
OrNull(v) == IF v = NoPhone THEN NoPhone ELSE v

\* lines 1291-1302: the account object made of a stored entry
LoadedAccount(acc, hasSession) ==
    [name |-> acc.name, phone |-> OrNull(acc.phone), createdAt |-> acc.createdAt,
     client |-> NoHandle, isReady |-> FALSE, isAuthenticated |-> FALSE,
     isInitializing |-> FALSE, qrCode |-> FALSE, hasStoredSession |-> hasSession]

\* the ids with a session directory: LocalAuth made one for every client that
\* was constructed (lines 1447-1451)
SessionDirs == {a \in Range(accounts) : acct[a].client # NoHandle}

restart(sessions) ==
    LET data == store
        ids == [i \in 1..Len(data.accounts) |-> data.accounts[i].id]
    IN  /\ accounts' = ids
        /\ acct' = [a \in Range(ids) |->
                      LoadedAccount(CHOOSE acc \in Range(data.accounts) : acc.id = a,
                                    a \in sessions)]
        /\ activeAccountId' = OrNull(data.activeAccountId)
        /\ deletedMessages' = deletedFile
        /\ handles' = <<>>
        /\ nextHandle' = 1
        /\ calls' = EmptyBag
        /\ timers' = EmptyBag
        /\ _chatsCache' = Null
        /\ _chatsCacheTime' = 0
        /\ step' = Done("constructor", NoId, "none")
        /\ emitted' = <<>>
        /\ UNCHANGED <<nextId, store, now, deletedFile, retracted>>
        /\ Observe({}, {}, NoRun, NoSeen)

----------------------------------------------------------------------------
(* The deleted-message ledger, lines 1237-1274, the retraction handler,      *)
(* lines 1586-1611, and the message list of a chat, lines 452-529            *)

MsgIds == 1..MaxMsgs

ChatIds == (Own + 1)..(Own + MaxChats)

\* the chat a message is in
ChatOf(m) == Own + 1 + ((m - 1) % MaxChats)

\* line 1591: const chatId = message.from || message.to; from is the chat for
\* a message received and the account's own id for a message it sent
RevokedChatId(m, fromMe) ==
    LET from == IF fromMe THEN Own ELSE ChatOf(m)
        to == IF fromMe THEN ChatOf(m) ELSE Own
    IN  IF from # NoId THEN from ELSE to

\* lines 1592-1604: the record made from the original message
DeletedMsgData(m, fromMe, accountId, stamp) ==
    [id |-> m, chatId |-> RevokedChatId(m, fromMe), timestamp |-> m,
     fromMe |-> fromMe, deletedAt |-> stamp, accountId |-> accountId]

MapSet_append(map, messageData) == Append(map, messageData)

\* line 1261: this.deletedMessages.set(messageData.id, messageData); a key the
\* Map holds keeps its place
MapSet(map, messageData) ==
    IF \E i \in 1..Len(map) : map[i].id = messageData.id
    THEN [i \in 1..Len(map) |->
             IF map[i].id = messageData.id THEN messageData ELSE map[i]]
    ELSE Append(map, messageData)

\* lines 1250-1257: the whole file is rewritten from the Map
saveDeletedMessages(map) == map

\* lines 1260-1263
saveDeletedMessage(messageData) ==
    /\ deletedMessages' = MapSet(deletedMessages, messageData)
    /\ deletedFile' = saveDeletedMessages(deletedMessages')

\* a step that returns a value for a chat id
Answer(op, accountId, err, chatId, value) ==
    [chat |-> chatId] @@ [Done(op, accountId, err) EXCEPT !.ret = value]

\* lines 1586-1611; original: revokedMsg is there
on_message_revoke_everyone(h, m, fromMe, original) ==
    /\ Emits(h)
    /\ LET a == handles[h].owner
       IN  /\ IF original
              THEN /\ saveDeletedMessage(DeletedMsgData(m, fromMe, a, now))
                   /\ retracted' = retracted \cup {[id |-> m, chat |-> ChatOf(m)]}
              ELSE UNCHANGED ledgerVars
           /\ step' = Answer("on_message_revoke_everyone", a, "none", ChatOf(m), m)
           /\ emitted' = <<Ev("message_revoked", a)>>
           /\ UNCHANGED <<mgrVars, hVars, asyncVars, chatVars>>
           /\ Observe({}, {}, NoRun, seen)

LedgerFilter_all(map, chatId) == map

\* lines 1267-1273
LedgerFilter(map, chatId) == SelectSeq(map, LAMBDA msg : msg.chatId = chatId)

\* lines 1266-1274
getDeletedMessagesForChat(chatId) ==
    /\ step' = Answer("getDeletedMessagesForChat", NoId, "none", chatId,
                      LedgerFilter(deletedMessages, chatId))
    /\ emitted' = <<>>
    /\ UNCHANGED <<mgrVars, hVars, asyncVars, chatVars>>
    /\ Record({}, {}, NoRun, seen)

\* helpers.js lines 89-106: a message of the live session, as it is listed;
\* the session shows a retracted message with type 'revoked'
formatMessage(m) ==
    LET revoked == \E r \in retracted : r.id = m
    IN  [id |-> m, timestamp |-> m, isDeleted |-> revoked,
         type |-> IF revoked THEN "revoked" ELSE "chat"]

\* lines 488-506: a ledger record, as it is listed
FormatDeleted(msg) ==
    [id |-> msg.id, timestamp |-> msg.timestamp, isDeleted |-> TRUE, type |-> "revoked"]

\* lines 509-514: the ledger records whose id the live list lacks are added
Splice(formatted, del) ==
    formatted \o SelectSeq(del, LAMBDA d : \A i \in 1..Len(formatted) : formatted[i].id # d.id)

\* the ids of live in rising order, then one formatted message for each
LiveList(live) ==
    LET ids == SortSeq([i \in 1..Cardinality(live) |->
                           CHOOSE m \in live : Cardinality({x \in live : x < m}) = i - 1],
                       <)
    IN  [i \in 1..Len(ids) |-> formatMessage(ids[i])]

\* lines 485-518: the list sent for a chat the live session lists `live` for
MessageList(live, chatId) ==
    LET del == LedgerFilter(deletedMessages, chatId)
        all == Splice(LiveList(live),
                      [i \in 1..Len(del) |-> FormatDeleted(del[i])])
    IN  SortSeq(all, LAMBDA x, y : x.timestamp < y.timestamp)

\* router.get('/chats/:id/messages'), lines 452-467, up to the await of
\* getMessages (lines 1969-1972)
getChatMessages(chatId) ==
    LET a == getActiveAccount
        unready == a = NoId \/ NotAuthenticated(acct[a])
    IN  /\ IF unready
           THEN \* lines 455-462: messages: []
                /\ step' = Answer("getChatMessages", a, "none", chatId, <<>>)
                /\ UNCHANGED calls
           ELSE IF acct[a].client = NoHandle
           THEN \* line 1971 throws, line 527 answers 500
                /\ step' = Answer("getChatMessages", a, "NoActiveSession", chatId, <<>>)
                /\ UNCHANGED calls
           ELSE /\ calls' = BagAdd(calls, [chat |-> chatId] @@
                                   Suspended("getChatMessages", a, "fetch",
                                             acct[a].client, "direct"))
                /\ step' = Answer("getChatMessages", a, "pending", chatId, <<>>)
        /\ emitted' = <<>>
        /\ UNCHANGED <<mgrVars, hVars, timers, chatVars>>
        /\ Record({}, {}, NoRun, seen)

\* lines 467-524: the live session listed the messages `live` of the chat
getChatMessages_fetched(c, live) ==
    /\ c \in BagToSet(calls) /\ c.op = "getChatMessages"
    /\ \A m \in live : ChatOf(m) = c.chat
    /\ calls' = BagDel(calls, c)
    /\ step' = Answer("getChatMessages", c.acc, "fetched", c.chat, MessageList(live, c.chat))
    /\ emitted' = <<>>
    /\ UNCHANGED <<mgrVars, hVars, timers, chatVars>>
    /\ Record({}, {}, NoRun, seen)

\* lines 525-528: the live session threw
getChatMessages_caught(c) ==
    /\ c \in BagToSet(calls) /\ c.op = "getChatMessages"
    /\ calls' = BagDel(calls, c)
    /\ step' = Answer("getChatMessages", c.acc, "ServerError", c.chat, <<>>)
    /\ emitted' = <<>>
    /\ UNCHANGED <<mgrVars, hVars, timers, chatVars>>
    /\ Record({}, {}, NoRun, seen)

----------------------------------------------------------------------------
(* Room left under the bounds *)

CallRoom == BagCardinality(calls) < MaxCalls

TimerRoom == BagCardinality(timers) < MaxTimers

HandleRoom == nextHandle <= MaxCalls

Pending == BagToSet(calls)

Due == BagToSet(timers)

----------------------------------------------------------------------------
(* Spec: account creation, deletion and switching on up to MaxIds accounts,  *)
(* with the teardown and handshake awaits they suspend at                    *)

Next ==
    \/ \E name \in {GivenName} : nextId <= MaxIds /\ createAccount(name)
    \/ \E a \in 1..MaxIds : CallRoom /\ deleteAccount(a)
    \/ \E c \in Pending : deleteAccount_logout_ok(c)
    \/ \E c \in Pending : deleteAccount_logout_throw(c)
    \/ \E c \in Pending : deleteAccount_destroyed(c)
    \/ \E a \in 1..MaxIds : CallRoom /\ HandleRoom /\ switchAccount(a)
    \/ \E c \in Pending : HandleRoom /\ initializeAccount_destroyed(c)
    \/ \E c \in Pending : initializeAccount_resolved(c)
    \/ \E c \in Pending : initializeAccount_rejected(c)

Spec == Init /\ [][Next]_vars

\* the entries getAllAccounts reports with isActive = true
ActiveEntries == {i \in 1..Len(accounts) : IsActive(accounts[i])}

\* C2: at most one account is reported active, and a deleteAccount that removed
\* the active account while another account remains leaves exactly one active
C2_OneActive ==
    /\ Cardinality(ActiveEntries) <= 1
    /\ (step.op = "deleteAccount" /\ step.err = "none" /\ step.was = step.acc
        /\ Len(accounts) > 0)
           => Cardinality(ActiveEntries) = 1

C2_Witness ==
    /\ step.op = "deleteAccount" /\ step.err = "none" /\ step.was = step.acc
    /\ Len(accounts) > 0
    /\ \E h \in DOMAIN handles : handles[h].owner = step.acc

\* the step is of a deleteAccount call that passed its check of line 1372: the
\* call starts on a known id, or it resumes after an await
DeleteOfKnown ==
    /\ step'.op = "deleteAccount"
    /\ \/ Has(step'.acc)
       \/ \E c \in Pending : c.op = "deleteAccount" /\ c.acc = step'.acc
                               /\ calls' = BagDel(calls, c)

----------------------------------------------------------------------------
(* SpecCap: the manager at its capacity. The store loaded at construction    *)
(* holds maxAccounts accounts; callers name the first loaded account, the   *)
(* accounts created since, and an id that was never generated.               *)

InitCap ==
    /\ \E k \in {maxAccounts} : loadAccountsConfig(k, 1, {})
    /\ InitRest({})

CapIds == {1} \cup ((maxAccounts + 1)..(maxAccounts + CapFresh))

CapCallRoom == BagCardinality(calls) < CapCalls

CapHandleRoom == nextHandle <= CapCalls + 1

NextCap ==
    \/ \E name \in {NoName} :
          /\ nextId <= maxAccounts + CapFresh \/ Len(accounts) = maxAccounts
          /\ createAccount(name)
    \/ \E a \in CapIds : CapCallRoom /\ deleteAccount(a)
    \/ \E c \in Pending : deleteAccount_logout_ok(c)
    \/ \E c \in Pending : deleteAccount_logout_throw(c)
    \/ \E c \in Pending : deleteAccount_destroyed(c)
    \/ \E a \in CapIds : renameAccount(a, NewName)
    \/ \E a \in CapIds : CapCallRoom /\ CapHandleRoom /\ switchAccount(a)
    \/ \E c \in Pending : CapHandleRoom /\ initializeAccount_destroyed(c)
    \/ \E c \in Pending : initializeAccount_resolved(c)
    \/ \E c \in Pending : initializeAccount_rejected(c)

SpecCap == InitCap /\ [][NextCap]_vars

\* C3: the map never holds more than maxAccounts accounts, and createAccount on a
\* full map fails with CapacityExceeded and changes neither the map, nor an
\* account, nor the active pointer, nor the persisted store
C3_Capacity ==
    /\ [](Len(accounts) <= maxAccounts)
    /\ [][(step'.op = "createAccount" /\ Len(accounts) = maxAccounts)
            => /\ step'.err = "CapacityExceeded"
               /\ UNCHANGED <<accounts, acct, activeAccountId, store>>]_vars

C3_Witness ==
    /\ step = Done("createAccount", NoId, "CapacityExceeded")
    /\ Len(accounts) = maxAccounts
    /\ nextId > maxAccounts + 1

----------------------------------------------------------------------------
(* SpecReady: one stored account, its initialization and the callbacks of    *)
(* its clients that lead to Ready: the ready signal with its settling delay  *)
(* and the message fast path                                                 *)

InitReady ==
    /\ loadAccountsConfig(1, 1, {})
    /\ InitRest({"ready"})

NextReady ==
    \/ \E a \in {1} : CallRoom /\ HandleRoom /\ switchAccount(a)
    \/ \E a \in {1} : CallRoom /\ HandleRoom /\ initializeAccount(a)
    \/ \E c \in Pending : HandleRoom /\ initializeAccount_destroyed(c)
    \/ \E c \in Pending : initializeAccount_resolved(c)
    \/ \E c \in Pending : initializeAccount_rejected(c)
    \/ \E h \in DOMAIN handles, info \in BOOLEAN : TimerRoom /\ on_ready(h, info)
    \/ \E t \in Due : on_ready_settled(t)
    \/ \E h \in DOMAIN handles, info \in BOOLEAN : on_message(h, info)
    \/ \E h \in DOMAIN handles : on_qr(h)
    \/ \E h \in DOMAIN handles : on_auth_failure(h)
    \/ \E h \in DOMAIN handles : on_disconnected(h)

SpecReady == InitReady /\ [][NextReady]_vars

\* C1: an initialization attempt emits at most one Ready event; when the
\* account became Ready through the message fast path, the expiry of the
\* settling delay emits no Ready event and leaves the account as it was
C1_OneReady ==
    [][\A a \in DOMAIN acct :
          (step' = Done("on_ready", a, "none") /\ readyVia[a] = "on_message")
              => /\ Ev("ready", a) \notin Range(emitted')
                 /\ readyCount'[a] <= 1
                 /\ acct'[a] = acct[a]]_vars

\* the fast path made the account Ready and the settling delay then expired
C1_Witness ==
    \E a \in DOMAIN acct :
        /\ step = Done("on_ready", a, "none")
        /\ readyVia[a] = "on_message"

----------------------------------------------------------------------------
(* SpecSwitch: two stored accounts, the switches between them with the       *)
(* initializations they start, and the lifecycle events and the settling     *)
(* delay of the clients                                                      *)

InitSwitch ==
    /\ loadAccountsConfig(2, 1, {})
    /\ InitRest({"run"})

NextSwitch ==
    \/ \E a \in {1, 2} : CallRoom /\ HandleRoom /\ switchAccount(a)
    \/ \E c \in Pending : HandleRoom /\ initializeAccount_destroyed(c)
    \/ \E c \in Pending : initializeAccount_resolved(c)
    \/ \E c \in Pending : initializeAccount_rejected(c)
    \/ \E h \in DOMAIN handles : TimerRoom /\ on_ready(h, TRUE)
    \/ \E t \in Due : on_ready_settled(t)
    \/ \E h \in DOMAIN handles : on_auth_failure(h)
    \/ \E h \in DOMAIN handles : on_disconnected(h)

SpecSwitch == InitSwitch /\ [][NextSwitch]_vars

\* C4: when switchAccount(id) is called twice or more in a row for the same id,
\* each call made after the one before returned or while it is suspended in
\* its initialization, with no lifecycle event and no other operation in
\* between, the calls start at most one initialization and construct at most
\* one client between them, and the active pointer is id
C4_SwitchTwice ==
    swRun.calls >= 2 =>
        /\ swRun.inits <= 1
        /\ swRun.made <= 1
        /\ activeAccountId = swRun.id

\* the second call was made while the initialization the first one started,
\* which has constructed its client, is still suspended
C4_Witness ==
    /\ swRun.calls = 2
    /\ swRun.inits = 1
    /\ swRun.made = 1
    /\ swRun.mine # {}
    /\ step = Done("switchAccount", swRun.id, "none")

\* what belongs to account a: its object, the clients constructed for it, its
\* suspended calls and its pending timers
Session(a, ac, hs, cs, ts) ==
    [account |-> ac[a],
     clients |-> {<<h, hs[h].st>> : h \in {x \in DOMAIN hs : hs[x].owner = a}},
     calls |-> {<<c, CopiesIn(c, cs)>> : c \in {x \in BagToSet(cs) : x.acc = a}},
     timers |-> {<<t, CopiesIn(t, ts)>> : t \in {x \in BagToSet(ts) : x.acc = a}}]

\* C12: a switchAccount(B) call, from its entry to its return, changes nothing
\* of another account A: not its client, its isReady, isAuthenticated,
\* isInitializing or QR challenge, and not its suspended initialization
C12_SwitchFrame ==
    [][\A a \in DOMAIN acct :
          (step'.op = "switchAccount" /\ step'.acc # a)
              => Session(a, acct', handles', calls', timers')
                     = Session(a, acct, handles, calls, timers)]_vars

\* account 2 is switched to while the initialization of account 1 is suspended
C12_Witness ==
    /\ step = Done("switchAccount", 2, "pending")
    /\ acct[1].isInitializing /\ acct[1].client # NoHandle
    /\ \E c \in Pending : c.op = "initializeAccount" /\ c.acc = 1 /\ c.at = "handshake"

----------------------------------------------------------------------------
(* SpecRace: one stored account; initializeAccount, switchAccount and        *)
(* deleteAccount calls for it overlap at their awaits while its clients      *)
(* report failures                                                           *)

InitRace ==
    /\ loadAccountsConfig(1, 1, {})
    /\ InitRest({"deleted"})

\* one more client than calls that can be suspended together
RaceHandleRoom == nextHandle <= MaxCalls + 1

NextRace ==
    \/ \E a \in {1} : CallRoom /\ RaceHandleRoom /\ initializeAccount(a)
    \/ \E a \in {1} : CallRoom /\ RaceHandleRoom /\ switchAccount(a)
    \/ \E c \in Pending : RaceHandleRoom /\ initializeAccount_destroyed(c)
    \/ \E c \in Pending : initializeAccount_resolved(c)
    \/ \E c \in Pending : initializeAccount_rejected(c)
    \/ \E a \in {1} : CallRoom /\ deleteAccount(a)
    \/ \E c \in Pending : deleteAccount_logout_ok(c)
    \/ \E c \in Pending : deleteAccount_logout_throw(c)
    \/ \E c \in Pending : deleteAccount_destroyed(c)
    \/ \E h \in DOMAIN handles : on_auth_failure(h)

SpecRace == InitRace /\ [][NextRace]_vars

\* C8: every account has at most one client that was constructed and not yet
\* destroyed
C8_OneLiveHandle ==
    \A a \in DOMAIN acct : Cardinality(LiveHandles(a)) <= 1

\* C9: once deleteAccount(id) has completed, no client constructed for id is
\* live, then or later
C9_NoHandleAfterDelete ==
    \A a \in deleted : LiveHandles(a) = {}

----------------------------------------------------------------------------
(* SpecMonitor: one stored account is switched to, its client authenticates  *)
(* and the readiness monitor runs its passes; the client is not              *)
(* disconnected, rejected or initialized again                               *)

InitMonitor ==
    /\ loadAccountsConfig(1, 1, {})
    /\ InitRest({})

\* the one client of the account
MonitorHandleRoom == nextHandle = 1

\* the client authenticates again only when no pass of the monitor is pending
\* or suspended
MonitorIdle == timers = EmptyBag /\ calls = EmptyBag

NextMonitor ==
    \/ \E a \in {1} : CallRoom /\ MonitorHandleRoom /\ switchAccount(a)
    \/ \E c \in Pending : initializeAccount_resolved(c)
    \/ \E h \in DOMAIN handles : MonitorIdle /\ on_authenticated(h)
    \/ \E t \in Due, page \in PageStates, capable \in BOOLEAN :
          CallRoom /\ checkAndSetReady(t, page, capable)
    \/ \E c \in Pending, outcome \in {"array", "other", "throws"}, info \in BOOLEAN :
          checkAndSetReady_probed(c, outcome, info)

SpecMonitor == InitMonitor /\ [][NextMonitor]_vars

\* C10: when the monitor has used up its attempts on an authenticated
\* account, the pass that ends them marks the account Ready and emits the
\* Ready event
C10_ForcePromote ==
    \A a \in DOMAIN acct :
        step = Done("checkAndSetReady", a, "exhausted")
            => /\ acct[a].isReady
               /\ Ev("ready", a) \in Range(emitted)

----------------------------------------------------------------------------
(* SpecChats: two stored accounts are switched between, their clients sign   *)
(* in, and getChats is called as time passes                                 *)

InitChats ==
    /\ loadAccountsConfig(2, 1, {})
    /\ InitRest({})

ClockRoom == now < MaxTicks * TickLen

\* a switch that initializes needs room for the call and the client
SwitchRoom(a) == (Has(a) /\ SwitchNeedsInit(acct[a])) => (CallRoom /\ HandleRoom)

NextChats ==
    \/ \E a \in {1, 2} : SwitchRoom(a) /\ switchAccount(a)
    \/ \E c \in Pending : initializeAccount_resolved(c)
    \/ \E h \in DOMAIN handles : TimerRoom /\ on_ready(h, FALSE)
    \/ \E t \in Due : on_ready_settled(t)
    \/ \E env \in {ClientUp, [ClientUp EXCEPT !.page = "closed"]} : CallRoom /\ getChats(env)
    \/ \E c \in Pending : getChats_fetched(c)
    \/ \E c \in Pending : getChats_caught(c)
    \/ ClockRoom /\ Tick

SpecChats == InitChats /\ [][NextChats]_vars

\* C5: a snapshot that getChats returns was fetched from a client of the
\* account that was active when the call was made
C5_FromActive ==
    (step.op = "getChats" /\ step.ret.h # NoHandle)
        => handles[step.ret.h].owner = step.acc

----------------------------------------------------------------------------
(* SpecFacade: a store that is empty or holds one account; the account is    *)
(* switched to, its client signs in, fails and drops out, and getChats is   *)
(* called as time passes                                                     *)

InitFacade ==
    /\ \E k \in {0, 1} : loadAccountsConfig(k, IF k = 0 THEN NoId ELSE 1, {})
    /\ InitRest({"chats"})

\* the account is initialized once: it has one client
FacadeSwitchRoom(a) ==
    (Has(a) /\ SwitchNeedsInit(acct[a])) => (CallRoom /\ MonitorHandleRoom)

NextFacade ==
    \/ \E a \in {1} : FacadeSwitchRoom(a) /\ switchAccount(a)
    \/ \E c \in Pending : initializeAccount_resolved(c)
    \/ \E c \in Pending : initializeAccount_rejected(c)
    \/ \E h \in DOMAIN handles : TimerRoom /\ on_ready(h, FALSE)
    \/ \E t \in Due : on_ready_settled(t)
    \/ \E h \in DOMAIN handles : on_auth_failure(h)
    \/ \E h \in DOMAIN handles : on_disconnected(h)
    \/ \E env \in Envs : CallRoom /\ getChats(env)
    \/ \E c \in Pending : getChats_fetched(c)
    \/ \E c \in Pending : getChats_caught(c)
    \/ ClockRoom /\ Tick

SpecFacade == InitFacade /\ [][NextFacade]_vars

\* the active account of a getChats call that found one with a client,
\* authenticated or Ready
Serving(s) ==
    /\ s.op = "getChats" /\ s.err \in {"none", "pending"}
    /\ s.acc # NoId
    /\ acct[s.acc].client # NoHandle
    /\ acct[s.acc].isReady \/ acct[s.acc].isAuthenticated

\* a getChats call made for the account, and inside the cache window, of the
\* snapshot that the getChats call before it returned
Again(s) ==
    /\ s.op = "getChats" /\ s.err \in {"none", "pending"}
    /\ s.acc # NoId /\ s.acc = seen.acc
    /\ now - seen.time < _chatsCacheDuration

\* C6 as stated: a getChats call made for the same active account inside the
\* cache window of the snapshot the call before it returned returns that
\* snapshot without calling the client
C6_SameSnapshot ==
    [][Again(step') => (step'.err = "none" /\ step'.ret = seen.snap)]_vars

\* C6, amended: the same when the account is still authenticated or Ready at
\* the second call and no other fetch has replaced the cached snapshot since
\* the first call returned
C6_SameSnapshotWhileServing ==
    [][(/\ Again(step')
        /\ Serving(step')
        /\ _chatsCache = seen.snap /\ _chatsCacheTime = seen.time)
           => (step'.err = "none" /\ step'.ret = seen.snap)]_vars

\* a second call in a row returned the cached snapshot
C6_Witness ==
    /\ step.op = "getChats" /\ step.err = "none"
    /\ seen.n >= 2
    /\ step.ret = seen.snap /\ step.ret.h # NoHandle

----------------------------------------------------------------------------
(* SpecStatus: one stored account is initialized, directly or by a switch;   *)
(* its client shows a scan challenge, authenticates and signals ready, the   *)
(* readiness monitor probes it with success, and getAccountStatus is polled   *)

InitStatus ==
    /\ loadAccountsConfig(1, 1, {})
    /\ InitRest({})

\* the client authenticates while no pass of the monitor is pending
NoMonitor == \A t \in Due : t.kind # "monitor"

NextStatus ==
    \/ \E a \in {1} : CallRoom /\ HandleRoom /\ switchAccount(a)
    \/ \E a \in {1} : CallRoom /\ HandleRoom /\ initializeAccount(a)
    \/ \E c \in Pending : HandleRoom /\ initializeAccount_destroyed(c)
    \/ \E c \in Pending : initializeAccount_resolved(c)
    \/ \E h \in DOMAIN handles : on_qr(h)
    \/ \E h \in DOMAIN handles : TimerRoom /\ NoMonitor /\ on_authenticated(h)
    \/ \E h \in DOMAIN handles, info \in BOOLEAN : TimerRoom /\ on_ready(h, info)
    \/ \E t \in Due : on_ready_settled(t)
    \/ \E t \in Due, page \in {"open"}, capable \in {TRUE} :
          CallRoom /\ checkAndSetReady(t, page, capable)
    \/ \E c \in Pending, outcome \in {"array"}, info \in BOOLEAN :
          checkAndSetReady_probed(c, outcome, info)
    \/ \E a \in {1}, info \in BOOLEAN : getAccountStatus(a, info)

SpecStatus == InitStatus /\ [][NextStatus]_vars

\* the step started an initialization of account a, or resumed one
Initializing(s, a) ==
    /\ s.op \in {"initializeAccount", "switchAccount"}
    /\ s.acc = a /\ s.err = "pending"

\* the step made account a Ready: the settling delay of the ready signal
\* elapsed, or a probe of the monitor succeeded
BecameReady(s, a) ==
    \/ s = Done("on_ready", a, "none")
    \/ s = Done("checkAndSetReady", a, "none")

\* C11: the status read right after an initialization of the account started
\* shows isInitializing and not isReady; the status read right after the client
\* showed a scan challenge shows hasQR; the status read right after the
\* settling delay elapsed or a probe succeeded on the authenticated account
\* shows isReady and isAuthenticated, with the phone the client reported
C11_StatusFollows ==
    [][\A a \in DOMAIN acct :
          step' = Done("getAccountStatus", a, "none") =>
              LET status == AccountStatus(acct', a)
              IN  /\ Initializing(step, a)
                     => (status.isInitializing /\ ~status.isReady)
                  /\ step = Done("on_qr", a, "none") => status.hasQR
                  /\ (BecameReady(step, a) /\ acct[a].isAuthenticated)
                     => /\ status.isReady /\ status.isAuthenticated
                        /\ status.phone \in {NoPhone, PhoneOf(acct[a].client)}]_vars

----------------------------------------------------------------------------
(* SpecLedger: a store that is empty or holds one account, and a ledger file *)
(* that is absent or holds one record; the account is switched to, its       *)
(* client signs in and drops out and reports retractions, and the ledger     *)
(* and the message list of a chat are read                                   *)

\* a record the ledger file holds at the start
StoredRecord == DeletedMsgData(1, FALSE, 1, 0)

InitLedger ==
    /\ \E k \in {0, 1} : loadAccountsConfig(k, IF k = 0 THEN NoId ELSE 1, {})
    /\ \E file \in {<<>>, <<StoredRecord>>} : InitRestWith({}, file)

\* the clock ticks once
LedgerClockRoom == now < TickLen

NextLedger ==
    \/ \E a \in {1} : FacadeSwitchRoom(a) /\ switchAccount(a)
    \/ \E c \in Pending : initializeAccount_resolved(c)
    \/ \E h \in DOMAIN handles : TimerRoom /\ on_ready(h, FALSE)
    \/ \E t \in Due : on_ready_settled(t)
    \/ \E h \in DOMAIN handles : on_disconnected(h)
    \/ \E h \in DOMAIN handles, m \in MsgIds, fromMe \in BOOLEAN, original \in BOOLEAN :
          on_message_revoke_everyone(h, m, fromMe, original)
    \/ \E chatId \in ChatIds \cup {Own} : getDeletedMessagesForChat(chatId)
    \/ \E chatId \in ChatIds : CallRoom /\ getChatMessages(chatId)
    \/ \E c \in Pending, live \in SUBSET MsgIds : getChatMessages_fetched(c, live)
    \/ \E c \in Pending : getChatMessages_caught(c)
    \/ LedgerClockRoom /\ Tick

SpecLedger == InitLedger /\ [][NextLedger]_vars

\* the records of a list with the id m
WithId(list, m) == {i \in 1..Len(list) : list[i].id = m}

\* C13: a message list answered for chat c holds, for every message of c that
\* a client reported retracted together with its original, exactly one record
\* with that id, marked isDeleted; and no id twice
C13_RetractedListed ==
    (step.op = "getChatMessages" /\ step.err \in {"none", "fetched"}) =>
        /\ \A r \in retracted :
              r.chat = step.chat =>
                  /\ Cardinality(WithId(step.ret, r.id)) = 1
                  /\ \A i \in WithId(step.ret, r.id) : step.ret[i].isDeleted
        /\ \A m \in MsgIds : Cardinality(WithId(step.ret, m)) <= 1

----------------------------------------------------------------------------
(* SpecLookup: the same store, ledger file and client, with the retractions  *)
(* the client reports and the lookups in the ledger                          *)

NextLookup ==
    \/ \E a \in {1} : FacadeSwitchRoom(a) /\ switchAccount(a)
    \/ \E c \in Pending : initializeAccount_resolved(c)
    \/ \E h \in DOMAIN handles : MonitorIdle /\ on_ready(h, FALSE)
    \/ \E t \in Due : on_ready_settled(t)
    \/ \E h \in DOMAIN handles : on_disconnected(h)
    \/ \E h \in DOMAIN handles, m \in MsgIds, fromMe \in BOOLEAN, original \in BOOLEAN :
          on_message_revoke_everyone(h, m, fromMe, original)
    \/ \E chatId \in ChatIds \cup {Own} : getDeletedMessagesForChat(chatId)
    \/ LedgerClockRoom /\ Tick

SpecLookup == InitLedger /\ [][NextLookup]_vars

\* the ids a ledger holds
LedgerIds(map) == {map[i].id : i \in 1..Len(map)}

\* C14: a retraction reported for a message id that the ledger holds leaves
\* the ledger, in memory and in its file, with the same ids and the same
\* number of records, one of them for that id
C14_Idempotent ==
    [][(/\ step'.op = "on_message_revoke_everyone"
        /\ step'.ret \in LedgerIds(deletedMessages))
           => /\ LedgerIds(deletedMessages') = LedgerIds(deletedMessages)
              /\ Len(deletedMessages') = Len(deletedMessages)
              /\ Cardinality(WithId(deletedMessages', step'.ret)) = 1
              /\ LedgerIds(deletedFile') = LedgerIds(deletedFile)
              /\ Len(deletedFile') = Len(deletedFile)
              /\ Cardinality(WithId(deletedFile', step'.ret)) = 1]_vars

\* the retraction of the first message of the ledger was reported again after
\* the retraction of another message had been recorded
C14_Witness ==
    /\ step.op = "on_message_revoke_everyone"
    /\ Len(deletedMessages) = 2
    /\ deletedMessages[1].id = step.ret
    /\ deletedMessages[1].deletedAt > deletedMessages[2].deletedAt
    /\ deletedFile = deletedMessages

\* C15: getDeletedMessagesForChat(chatId) returns the records of the ledger
\* whose chatId is the argument, each once and no other, whatever the state
\* of the accounts and their clients, and changes nothing
C15_LedgerLookup ==
    [][step'.op = "getDeletedMessagesForChat"
          => /\ {step'.ret[i] : i \in 1..Len(step'.ret)}
                  = {deletedMessages[i] : i \in {j \in 1..Len(deletedMessages) :
                                                   deletedMessages[j].chatId = step'.chat}}
             /\ \A m \in MsgIds : Cardinality(WithId(step'.ret, m)) <= 1
             /\ UNCHANGED <<mgrVars, hVars, asyncVars, chatVars, ledgerVars>>]_vars

\* a lookup returned one of the two records of the ledger while the account
\* was not Ready
C15_Witness ==
    /\ step.op = "getDeletedMessagesForChat"
    /\ Len(step.ret) = 1 /\ Len(deletedMessages) = 2
    /\ \A a \in DOMAIN acct : ~acct[a].isReady

----------------------------------------------------------------------------
(* SpecStore: one stored account and the accounts created since; accounts    *)
(* are created, renamed, switched to, logged out and deleted, their clients  *)
(* report their identity, and the process is started again from the files    *)

InitStore ==
    /\ loadAccountsConfig(1, 1, {})
    /\ InitRest({})

StoreIds == 1..(1 + CapFresh)

\* one settling delay at a time
NoTimer == timers = EmptyBag

\* one call at a time
NoCall == calls = EmptyBag

NextStore ==
    \/ \E name \in {NoName} : nextId <= 1 + CapFresh /\ createAccount(name)
    \/ \E a \in StoreIds : NoCall /\ deleteAccount(a)
    \/ \E c \in Pending : deleteAccount_logout_ok(c)
    \/ \E c \in Pending : deleteAccount_logout_throw(c)
    \/ \E c \in Pending : deleteAccount_destroyed(c)
    \/ \E a \in {1} : renameAccount(a, NewName)
    \/ \E a \in StoreIds : NoCall /\ MonitorHandleRoom /\ switchAccount(a)
    \/ \E c \in Pending : initializeAccount_resolved(c)
    \/ \E h \in DOMAIN handles, info \in BOOLEAN : NoTimer /\ on_ready(h, info)
    \/ \E t \in Due : on_ready_settled(t)
    \/ \E a \in {1}, info \in {TRUE} : getAccountStatus(a, info)
    \/ \E withInfo \in {StoreIds} : getAllAccounts(withInfo)
    \/ \E a \in {1} : NoCall /\ logoutAccount(a)
    \/ \E c \in Pending : logoutAccount_resolved(c)
    \/ \E c \in Pending : logoutAccount_rejected(c)
    \/ \E sessions \in {SessionDirs} : restart(sessions)

SpecStore == InitStore /\ [][NextStore]_vars

\* C16: the manager a new process loads from the files has the ids, in their
\* order, the names, phones and creation times and the active pointer that the
\* manager before it had, and every account of it starts without a client,
\* not Ready, not authenticated, not initializing and without a QR challenge
C16_RoundTrip ==
    [][step'.op = "constructor"
          => /\ accounts' = accounts
             /\ activeAccountId' = activeAccountId
             /\ \A a \in Range(accounts) :
                   /\ acct'[a].name = acct[a].name
                   /\ acct'[a].phone = acct[a].phone
                   /\ acct'[a].createdAt = acct[a].createdAt
                   /\ acct'[a].client = NoHandle
                   /\ ~acct'[a].isReady /\ ~acct'[a].isAuthenticated
                   /\ ~acct'[a].isInitializing /\ ~acct'[a].qrCode]_vars

\* a process started from a store of two accounts, one renamed and with the
\* phone its client reported
C16_Witness ==
    /\ step.op = "constructor"
    /\ Len(accounts) = 2
    /\ \E a \in Range(accounts) : acct[a].phone # NoPhone /\ acct[a].name = NewName
    /\ activeAccountId = 2

\* what the account store should hold: the pointer and, per account of the
\* map, its id, name, phone and creation time
StoreView ==
    [activeAccountId |-> activeAccountId,
     accounts |-> [i \in 1..Len(accounts) |->
                     [id |-> accounts[i], name |-> acct[accounts[i]].name,
                      phone |-> acct[accounts[i]].phone,
                      createdAt |-> acct[accounts[i]].createdAt]]]

\* C17: the account store on disk holds the projection of the manager's
\* accounts and active pointer: every step that changes the account set, a
\* name, a phone or the pointer rewrites it
C17_StoreFollows == store = StoreView

\* a client reported the phone of an account after another account was
\* created, and the store holds both
C17_Witness ==
    /\ step.op = "on_ready"
    /\ Len(store.accounts) = 2
    /\ \E i \in 1..Len(store.accounts) : store.accounts[i].phone # NoPhone

----------------------------------------------------------------------------
(* SpecRecover: two stored accounts are initialized and switched to, their   *)
(* handshakes fail or their clients report a rejection or a disconnection,   *)
(* and they are initialized again                                            *)

InitRecover ==
    /\ loadAccountsConfig(2, 1, {})
    /\ InitRest({})

NextRecover ==
    \/ \E a \in {1, 2} : CallRoom /\ RaceHandleRoom /\ switchAccount(a)
    \/ \E a \in {1, 2} : CallRoom /\ RaceHandleRoom /\ initializeAccount(a)
    \/ \E c \in Pending : RaceHandleRoom /\ initializeAccount_destroyed(c)
    \/ \E c \in Pending : initializeAccount_resolved(c)
    \/ \E c \in Pending : initializeAccount_rejected(c)
    \/ \E h \in DOMAIN handles : on_auth_failure(h)
    \/ \E h \in DOMAIN handles : on_disconnected(h)

SpecRecover == InitRecover /\ [][NextRecover]_vars

\* the step is a call that starts, not one that resumes after an await: it
\* suspends a call more or none
NewCall == calls' = calls \/ BagCardinality(calls') > BagCardinality(calls)

\* the step resumes the call c at the settling of its handshake
HandshakeSettles(c) ==
    /\ c.op = "initializeAccount" /\ c.at = "handshake"
    /\ calls' = BagDel(calls, c)

\* C19: a handshake that throws is reported, as InitializationFailed, to the
\* caller that started it; the account then is not initializing, every other
\* account, the account list, the active pointer and the store are as before,
\* and an initializeAccount of the account made next is not answered as
\* already in progress
C19_HandshakeThrows ==
    [][/\ \A c \in Pending : HandshakeSettles(c) =>
             /\ step'.acc = c.acc
             /\ step'.op = (IF c.via = "switch" THEN "switchAccount" ELSE c.op)
             /\ step'.err \in {"none", "InitializationFailed"}
             /\ step'.err = "InitializationFailed" =>
                   /\ ~acct'[c.acc].isInitializing
                   /\ \A b \in DOMAIN acct \ {c.acc} : acct'[b] = acct[b]
                   /\ accounts' = accounts /\ activeAccountId' = activeAccountId
                   /\ store' = store
       /\ (step.err = "InitializationFailed" /\ step'.op = "initializeAccount"
           /\ step'.acc = step.acc /\ NewCall)
              => \E c \in BagToSet(calls' (-) calls) :
                    c.op = "initializeAccount" /\ c.acc = step.acc]_vars

\* the handshake of an account failed while the other account is initializing
\* with a client of its own, and there is room to call initializeAccount again
C19_Witness ==
    /\ step.op = "initializeAccount" /\ step.err = "InitializationFailed"
    /\ ~acct[step.acc].isInitializing
    /\ \E b \in DOMAIN acct \ {step.acc} :
          acct[b].isInitializing /\ acct[b].client # NoHandle
    /\ CallRoom /\ RaceHandleRoom

\* the account of the last step is Disconnected or Failed: its client reported
\* a disconnection or a rejected authentication, or its handshake threw
Fallen ==
    \/ step.op \in {"on_disconnected", "on_auth_failure"}
    \/ step.err = "InitializationFailed"

\* C20: an initializeAccount(id) or switchAccount(id) called when the account
\* id has just become Disconnected or Failed, and no call for it is suspended,
\* starts an initialization of it
C20_Reinitializes ==
    [][(Fallen /\ step'.acc = step.acc /\ NewCall
        /\ ~(\E c \in Pending : c.acc = step.acc)
        /\ step'.op \in {"initializeAccount", "switchAccount"})
          => \E c \in BagToSet(calls' (-) calls) :
                c.op = "initializeAccount" /\ c.acc = step.acc]_vars

----------------------------------------------------------------------------
(* initialize(), lines 2030-2079: the startup index.js runs once, line 126,  *)
(* before the server listens. Its frame travels with the call or the timer   *)
(* it is suspended at: list is accountsWithSessions, i the position in it    *)
(* (0: the account initialized first)                                        *)

\* lines 2034-2035: the ids of the accounts with a stored session, in Map order
accountsWithSessions == SelectSeq(accounts, LAMBDA a : acct[a].hasStoredSession)

\* guarded: the await is inside a try whose catch logs (lines 2042-2048 and
\* 2068-2073); the awaits of lines 2053 and 2059 are not
BootCall(accountId, at, h, list, i, guarded) ==
    [list |-> list, i |-> i, guarded |-> guarded]
        @@ Suspended("initializeAccount", accountId, at, h, "startup")

\* lines 2045, 2070: await new Promise(resolve => setTimeout(resolve, ...))
BootDelay(accountId, list, i) ==
    [kind |-> "startup", acc |-> accountId, n |-> i, list |-> list]

BootInitStart_parallel(ac, accountId, list, i, guarded, cs, ts) ==
    /\ IF ac[accountId].client # NoHandle
       THEN /\ acct' = InitBegin(ac, accountId)
            /\ calls' = BagAdd(calls, BootCall(accountId, "destroy",
                                               ac[accountId].client, list, i, guarded))
            /\ UNCHANGED hVars
       ELSE /\ acct' = NewClient(InitBegin(ac, accountId), accountId, nextHandle)
            /\ handles' = Append(handles, [st |-> "live", owner |-> accountId])
            /\ nextHandle' = nextHandle + 1
            /\ calls' = BagAdd(calls, BootCall(accountId, "handshake",
                                               nextHandle, list, i, guarded))
    /\ timers' = ts
    /\ step' = Done("initialize", accountId, "pending")

\* await this.initializeAccount(id) of lines 2043, 2053, 2059 and 2069, for an
\* account that passes the guards of lines 1423-1430: lines 1432-1613 up to
\* the first await; cs and ts are the calls and timers the run leaves
BootInitStart(ac, accountId, list, i, guarded, cs, ts) ==
    /\ IF ac[accountId].client # NoHandle
       THEN /\ acct' = InitBegin(ac, accountId)
            /\ calls' = BagAdd(cs, BootCall(accountId, "destroy",
                                            ac[accountId].client, list, i, guarded))
            /\ UNCHANGED hVars
       ELSE /\ acct' = NewClient(InitBegin(ac, accountId), accountId, nextHandle)
            /\ handles' = Append(handles, [st |-> "live", owner |-> accountId])
            /\ nextHandle' = nextHandle + 1
            /\ calls' = BagAdd(cs, BootCall(accountId, "handshake",
                                            nextHandle, list, i, guarded))
    /\ timers' = ts
    /\ step' = Done("initialize", accountId, "pending")

\* the awaited initializeAccount returned at once, lines 1427-1430, and the
\* startup waits out its delay
BootWait(ac, accountId, list, i, cs, ts) ==
    /\ acct' = ac
    /\ calls' = cs
    /\ timers' = BagAdd(ts, BootDelay(accountId, list, i))
    /\ step' = Done("initialize", accountId, "pending")
    /\ UNCHANGED hVars

\* lines 2066-2067: the first position from i on whose account the loop calls
\* initializeAccount for and that call does not throw NotFound (which line 2071
\* catches); Len(list) + 1 when the loop is over
BootSkip(list, i, active, accs) ==
    LET rest == {j \in i..Len(list) : list[j] # active /\ list[j] \in Range(accs)}
    IN  IF rest = {} THEN Len(list) + 1
        ELSE CHOOSE j \in rest : \A k \in rest : j <= k

\* lines 2064-2078: the loop from position i on, in the run that resumed the
\* startup with the account objects ac, the calls cs and the timers ts
BootLoop(ac, list, i, cs, ts) ==
    LET j == BootSkip(list, i, activeAccountId, accounts)
    IN  /\ IF j > Len(list)
           THEN \* line 2078: initialize() returns
                /\ acct' = ac
                /\ calls' = cs /\ timers' = ts
                /\ step' = Done("initialize", NoId, "none")
                /\ UNCHANGED hVars
                /\ Hist({}, {})
           ELSE IF ac[list[j]].isInitializing
           THEN BootWait(ac, list[j], list, j, cs, ts) /\ Hist({}, {})
           ELSE BootInitStart(ac, list[j], list, j, TRUE, cs, ts) /\ Hist({list[j]}, {})
        /\ emitted' = <<>>
        /\ UNCHANGED <<accounts, activeAccountId, nextId, store>>

\* lines 2030-2062, up to the first await. index.js calls it on the manager
\* the constructor made, in which no account is initializing (line 1297), so
\* the awaited initializeAccount passes the guard of line 1427
initialize ==
    /\ step.op = "constructor"
    /\ LET list == accountsWithSessions
       IN  IF activeAccountId # NoId /\ Has(activeAccountId)
           THEN /\ BootInitStart(acct, activeAccountId, list, 0, TRUE, calls, timers)
                /\ emitted' = <<>>
                /\ UNCHANGED <<accounts, activeAccountId, nextId, store>>
                /\ Hist({activeAccountId}, {})
           ELSE IF Len(accounts) = 0
           THEN \* lines 2050-2053: createAccount('Main Account')
                LET id == nextId
                    ac == (id :> NewAccount(GivenName, id)) @@ acct
                IN  /\ accounts' = <<id>>
                    /\ activeAccountId' = id
                    /\ nextId' = nextId + 1
                    /\ store' = saveAccountsConfig(<<id>>, ac, id)
                    /\ BootInitStart(ac, id, list, 0, FALSE, calls, timers)
                    /\ emitted' = <<Ev("account_created", id)>>
                    /\ Hist({id}, {})
           ELSE \* lines 2055-2059
                LET firstId == accounts[1]
                IN  /\ activeAccountId' = firstId
                    /\ store' = saveAccountsConfig(accounts, acct, firstId)
                    /\ BootInitStart(acct, firstId, list, 0, FALSE, calls, timers)
                    /\ emitted' = <<>>
                    /\ UNCHANGED <<accounts, nextId>>
                    /\ Hist({firstId}, {})

\* the awaited initializeAccount resolved
initialize_resolved(c) ==
    /\ c \in BagToSet(calls) /\ c.via = "startup" /\ c.at = "handshake"
    /\ IF c.guarded
       THEN \* lines 2045, 2070
            /\ BootWait(acct, c.acc, c.list, c.i, BagDel(calls, c), timers)
            /\ emitted' = <<>>
            /\ UNCHANGED <<accounts, activeAccountId, nextId, store>>
            /\ Hist({}, {})
       ELSE BootLoop(acct, c.list, 1, BagDel(calls, c), timers)

initialize_rejected_raise(c) ==
    /\ c \in BagToSet(calls) /\ c.via = "startup" /\ c.at = "handshake"
    /\ acct' = [acct EXCEPT ![c.acc].isInitializing = FALSE]
    /\ calls' = BagDel(calls, c)
    /\ step' = Done("initialize", c.acc, "InitializationFailed")
    /\ emitted' = <<>>
    /\ UNCHANGED <<accounts, activeAccountId, nextId, store, hVars, timers>>
    /\ Hist({}, {})

\* the awaited initializeAccount threw: its catch, lines 1616-1620, then the
\* catch of line 2046 or 2071, or none
initialize_rejected(c) ==
    /\ c \in BagToSet(calls) /\ c.via = "startup" /\ c.at = "handshake"
    /\ LET ac == [acct EXCEPT ![c.acc].isInitializing = FALSE]
       IN  IF c.guarded
           THEN BootLoop(ac, c.list, c.i + 1, BagDel(calls, c), timers)
           ELSE /\ acct' = ac
                /\ calls' = BagDel(calls, c)
                /\ step' = Done("initialize", c.acc, "InitializationFailed")
                /\ emitted' = <<>>
                /\ UNCHANGED <<accounts, activeAccountId, nextId, store, hVars, timers>>
                /\ Hist({}, {})

\* the delay of line 2045 or 2070 ran out
initialize_delayed(t) ==
    /\ t \in BagToSet(timers) /\ t.kind = "startup"
    /\ BootLoop(acct, t.list, t.n + 1, calls, BagDel(timers, t))

----------------------------------------------------------------------------
(* SpecBoot: a process starts on a stored file of no account or of           *)
(* MaxIds + 1 accounts, some with a session directory, and runs initialize(); *)
(* meanwhile a client reports a rejection and account 2 is switched to       *)

BootIds == 1..(MaxIds + 1)

InitBoot ==
    /\ \E k \in {0, MaxIds + 1}, active \in {NoId} \cup BootIds,
          sessions \in SUBSET BootIds :
         /\ active <= k /\ sessions \subseteq 1..k
         /\ loadAccountsConfig(k, active, sessions)
    /\ InitRest({})

\* one client more than accounts
BootHandleRoom == nextHandle <= MaxIds + 2

\* a call the startup did not make
Direct(c) == c.via # "startup"

\* one such call at a time
NoDirect == \A c \in Pending : ~Direct(c)

NextBoot ==
    \/ initialize
    \/ \E c \in Pending : initialize_resolved(c)
    \/ \E c \in Pending : initialize_rejected(c)
    \/ \E t \in Due : initialize_delayed(t)
    \/ \E c \in Pending : BootHandleRoom /\ initializeAccount_destroyed(c)
    \/ \E a \in {2} : step.op # "constructor" /\ NoDirect /\ BootHandleRoom
                      /\ switchAccount(a)
    \/ \E c \in Pending : Direct(c) /\ initializeAccount_resolved(c)
    \/ \E c \in Pending : Direct(c) /\ initializeAccount_rejected(c)
    \/ \E h \in DOMAIN handles : on_auth_failure(h)

SpecBoot == InitBoot /\ [][NextBoot]_vars

\* the startup's frames: the initializeAccount calls it awaits and its delays
BootFrames(cs, ts) ==
    {c \in BagToSet(cs) : c.via = "startup"} \cup {t \in BagToSet(ts) : t.kind = "startup"}

\* the handshakes the startup started and awaits
BootHandshakes(cs) == {c \in BagToSet(cs) : c.via = "startup"}

\* C21: the startup starts its first handshake for the active account; it never
\* awaits two handshakes together; and it starts the handshake of another
\* account only in a step that resumes it after the handshake or the delay
\* before
C21_OneAtATime ==
    [][/\ Cardinality(BootHandshakes(calls')) <= 1
       /\ \A c \in BootHandshakes(calls') \ BootHandshakes(calls) :
             IF step.op = "constructor"
             THEN c.acc = activeAccountId' /\ c.i = 0
             ELSE /\ c.i > 0
                  /\ BootFrames(calls, timers) \ BootFrames(calls', timers') # {}]_vars

\* the handshake of a second account with a session is in flight after the
\* handshake of the one before it failed
C21_Witness ==
    /\ \E c \in BootHandshakes(calls) : c.i = 2 /\ c.at = "handshake"
    /\ step.op = "initialize"
    /\ Cardinality({h \in DOMAIN handles : handles[h].owner # activeAccountId}) >= 2

\* the step resumes the startup at the failure of the handshake c of a
\* secondary account: the call is gone and no delay for it was set
SecondaryFailed(c) ==
    /\ c \in BootHandshakes(calls) /\ c.at = "handshake" /\ c.i > 0
    /\ ~(c \in BagToSet(calls'))
    /\ ~(BootDelay(c.acc, c.list, c.i) \in BagToSet(timers'))
    /\ step'.op = "initialize"

\* the positions after c's of the accounts with a session still to initialize
Remaining(c) ==
    {j \in (c.i + 1)..Len(c.list) : c.list[j] # activeAccountId /\ Has(c.list[j])}

\* C22: when the handshake of a secondary account fails during the startup,
\* the startup raises nothing: it goes on with the next account with a session
\* that remains, or returns when none remains
C22_StartupGoesOn ==
    [][\A c \in Pending : SecondaryFailed(c) =>
          /\ step'.err \in {"pending", "none"}
          /\ Remaining(c) = {} =>
                step'.err = "none" /\ BootFrames(calls', timers') = {}
          /\ Remaining(c) # {} =>
                \E d \in BootFrames(calls', timers') :
                   d.acc = c.list[CHOOSE j \in Remaining(c) :
                                     \A k \in Remaining(c) : j <= k]]_vars

\* the startup returned after the handshake of a secondary account failed and
\* every account with a session got a client
C22_Witness ==
    /\ step = Done("initialize", NoId, "none")
    /\ \A a \in Range(accountsWithSessions) : acct[a].client # NoHandle
    /\ \E a \in Range(accountsWithSessions) :
          a # activeAccountId /\ ~acct[a].isInitializing
    /\ Len(accountsWithSessions) = MaxIds + 1

\* C23: a logoutAccount of an id that is not in the map, or whose account has
\* no client, fails and changes nothing; a logoutAccount that returns leaves
\* the account not Ready, not authenticated and without a phone, and the
\* account store holds no phone for it
C23_Logout ==
    [][step'.op = "logoutAccount" =>
          /\ (calls' = calls) =>
                /\ ~Has(step'.acc) \/ acct[step'.acc].client = NoHandle
                /\ step'.err = "NotInitialized"
                /\ UNCHANGED <<mgrVars, hVars, asyncVars, chatVars, ledgerVars>>
          /\ (calls' # calls /\ NewCall) =>
                Has(step'.acc) /\ acct[step'.acc].client # NoHandle
          /\ step'.err = "none" =>
                /\ ~acct'[step'.acc].isReady /\ ~acct'[step'.acc].isAuthenticated
                /\ acct'[step'.acc].phone = NoPhone
                /\ \A i \in 1..Len(store'.accounts) :
                      store'.accounts[i].id = step'.acc
                         => store'.accounts[i].phone = NoPhone]_vars

\* a logoutAccount returned for an account that has a client and is in the
\* store beside another account that keeps its phone
C23_Witness ==
    /\ step.op = "logoutAccount" /\ step.err = "none"
    /\ Has(step.acc) /\ acct[step.acc].client # NoHandle
    /\ \E i \in 1..Len(store.accounts) : store.accounts[i].id = step.acc
    /\ \E i \in 1..Len(store.accounts) : store.accounts[i].phone # NoPhone

\* C24: deleteAccount, renameAccount and switchAccount called with an id that
\* is not in the map fail with NotFound, and the map, the account objects, the
\* active pointer, the account store, the clients and the suspended calls are
\* as before
C24_NotFound ==
    [][(step'.op \in {"deleteAccount", "renameAccount", "switchAccount"}
        /\ NewCall /\ ~Has(step'.acc))
          => /\ step'.err = "NotFound"
             /\ emitted' = <<>>
             /\ UNCHANGED <<mgrVars, hVars, asyncVars, chatVars, ledgerVars>>]_vars

\* switchAccount was called with the id of an account that was deleted, while
\* another account is active
C24_Witness ==
    /\ step.op = "switchAccount" /\ step.err = "NotFound"
    /\ step.acc < nextId
    /\ activeAccountId # NoId /\ Has(activeAccountId)

----------------------------------------------------------------------------
(* The methods that hand a request to the active client, lines 1951-1996:    *)
(* getChatById, sendMessage, getMessages and getContactInfo                  *)

FacadeOps == {"getChatById", "sendMessage", "getMessages", "getContactInfo"}

\* getMessages awaits client.getChatById and returns chat.fetchMessages (lines
\* 1972-1977); getContactInfo awaits client.getContactById, then
\* contact.getChat (lines 1984-1985)
SecondCall == {"getMessages", "getContactInfo"}

getActiveClient_first ==
    IF Len(accounts) = 0 THEN NoHandle ELSE acct[accounts[1]].client

\* lines 1673-1676
getActiveClient ==
    IF getActiveAccount = NoId THEN NoHandle ELSE acct[getActiveAccount].client

\* how a call of one of the methods ended; thrown: the client call it awaited
\* threw in this step; ret: the value returned, Null for null
Outcome(op, accountId, err, thrown, value) ==
    [thrown |-> thrown] @@ [Done(op, accountId, err) EXCEPT !.ret = value]

\* lines 1952-1954, 1958-1960, 1970-1972, 1981-1984: up to the call of the client
delegate(op) ==
    /\ op \in FacadeOps
    /\ LET h == getActiveClient
       IN  IF h = NoHandle
           THEN /\ step' = Outcome(op, getActiveAccount, "NoActiveSession", FALSE, Null)
                /\ UNCHANGED calls
           ELSE /\ calls' = BagAdd(calls, Suspended(op, getActiveAccount, "first", h, "direct"))
                /\ step' = Outcome(op, getActiveAccount, "pending", FALSE, Null)
    /\ emitted' = <<>>
    /\ UNCHANGED <<mgrVars, hVars, timers>>
    /\ Hist({}, {})

\* the client call resolved
delegate_resolved(c) ==
    /\ c \in BagToSet(calls) /\ c.op \in FacadeOps
    /\ IF c.op \in SecondCall /\ c.at = "first"
       THEN /\ calls' = BagAdd(BagDel(calls, c), [c EXCEPT !.at = "second"])
            /\ step' = Outcome(c.op, c.acc, "pending", FALSE, Null)
       ELSE /\ calls' = BagDel(calls, c)
            /\ step' = Outcome(c.op, c.acc, "none", FALSE, Chats(c.h, 0))
    /\ emitted' = <<>>
    /\ UNCHANGED <<mgrVars, hVars, timers>>
    /\ Hist({}, {})

\* the client call threw: the catch of lines 1992-1995 in getContactInfo, no
\* catch in the other three
delegate_rejected(c) ==
    /\ c \in BagToSet(calls) /\ c.op \in FacadeOps
    /\ calls' = BagDel(calls, c)
    /\ step' = IF c.op = "getContactInfo"
               THEN Outcome(c.op, c.acc, "none", TRUE, Null)
               ELSE Outcome(c.op, c.acc, "AutomationLayerError", TRUE, Null)
    /\ emitted' = <<>>
    /\ UNCHANGED <<mgrVars, hVars, timers>>
    /\ Hist({}, {})

----------------------------------------------------------------------------
(* SpecDelegate: a store of no account or of two; accounts are initialized   *)
(* and switched to, and requests are handed to the active client             *)

InitDelegate ==
    /\ \E k \in {0, 2}, active \in {NoId, 1, 2} :
          active <= k /\ loadAccountsConfig(k, active, {})
    /\ InitRest({})

NextDelegate ==
    \/ \E a \in {1, 2} : CapCallRoom /\ CapHandleRoom /\ initializeAccount(a)
    \/ \E a \in {1, 2} : CapCallRoom /\ CapHandleRoom /\ switchAccount(a)
    \/ \E c \in Pending : initializeAccount_resolved(c)
    \/ \E c \in Pending : initializeAccount_rejected(c)
    \/ \E op \in FacadeOps : CapCallRoom /\ delegate(op)
    \/ \E c \in Pending : delegate_resolved(c)
    \/ \E c \in Pending : delegate_rejected(c)

SpecDelegate == InitDelegate /\ [][NextDelegate]_vars

\* C25: getChatById, sendMessage, getMessages and getContactInfo, called when
\* there is no active account or the active account has no client, fail with
\* NoActiveSession; no call of a client is made and nothing is changed
C25_NoActiveSession ==
    [][(step'.op \in FacadeOps /\ NewCall
        /\ (getActiveAccount = NoId \/ acct[getActiveAccount].client = NoHandle))
          => /\ step'.err = "NoActiveSession"
             /\ calls' = calls
             /\ UNCHANGED <<mgrVars, hVars, timers, chatVars, ledgerVars>>]_vars

\* getContactInfo failed for an active account without a client while the
\* other account has one
C25_Witness ==
    /\ step.op = "getContactInfo" /\ step.err = "NoActiveSession"
    /\ step.acc # NoId /\ acct[step.acc].client = NoHandle
    /\ \E a \in Range(accounts) : acct[a].client # NoHandle

\* C26: when the client call of a sendMessage, getChatById or getContactInfo
\* throws, the method raises the error to its caller
C26_ErrorsPropagate ==
    [][(step'.op \in {"sendMessage", "getChatById", "getContactInfo"}
        /\ step'.thrown)
          => step'.err = "AutomationLayerError"]_vars

\* C27: a pass of the monitor whose probe completes when the account is
\* already Ready changes no account and emits no Ready event
C27_LatePassIdle ==
    [][\A c \in Pending :
          (c.op = "checkAndSetReady" /\ calls' = BagDel(calls, c)
           /\ acct[c.acc].isReady)
              => /\ acct' = acct
                 /\ ~(Ev("ready", c.acc) \in Range(emitted'))]_vars

\* C28: the step in which a client reports its disconnection leaves the account
\* not Ready and not authenticated and emits the disconnected event; and the
\* expiry of a settling delay or a pass of the monitor that follows it does
\* not make the account Ready
C28_StaysDisconnected ==
    [][/\ step'.op = "on_disconnected" =>
             /\ ~acct'[step'.acc].isReady /\ ~acct'[step'.acc].isAuthenticated
             /\ Ev("disconnected", step'.acc) \in Range(emitted')
       /\ (step.op = "on_disconnected" /\ step'.acc = step.acc
           /\ step'.op \in {"on_ready", "checkAndSetReady"})
             => ~acct'[step.acc].isReady]_vars

\* C29: no account that is authenticated or Ready reports a scan challenge
C29_QrOnlyAwaitingScan ==
    \A a \in Range(accounts) :
        (acct[a].isAuthenticated \/ acct[a].isReady) => ~AccountStatus(acct, a).hasQR

\* C30: no account is Ready and Initializing at the same time
C30_ReadyNotInitializing ==
    \A a \in Range(accounts) : ~(acct[a].isReady /\ acct[a].isInitializing)

\* C31: the step that follows the Disconnected event of an account emits no
\* Ready event for that account, unless it begins a new initialization of it
C31_CausalOrder ==
    [][\A a \in DOMAIN acct :
          (step = Done("on_disconnected", a, "none") /\ ~Initializing(step', a))
              => Ev("ready", a) \notin Range(emitted')]_vars

\* C32: a step that changes isReady of an account from false to true emits a
\* Ready event for the account, the status and list reads included
C32_ReadyIsAnnounced ==
    [][\A a \in DOMAIN acct :
          (~acct[a].isReady /\ acct'[a].isReady)
              => Ev("ready", a) \in Range(emitted')]_vars

\* C33: once an account was removed and every client constructed for it is
\* torn down, no expiry of a timer and no lifecycle handler registered for
\* those clients changes the account or emits an event for it
C33_NoStaleCallback ==
    [][\A a \in DOMAIN acct :
          (/\ ~Has(a) /\ LiveHandles(a) = {}
           /\ \E h \in DOMAIN handles : handles[h].owner = a
           /\ step'.acc = a
           /\ step'.op \in {"on_ready", "checkAndSetReady", "on_qr", "on_authenticated",
                            "on_auth_failure", "on_disconnected", "on_message"})
              => /\ acct'[a] = acct[a]
                 /\ \A i \in 1..Len(emitted') : emitted'[i].accountId # a]_vars

----------------------------------------------------------------------------
(* SpecMonitorFair: the run of SpecMonitor under the scheduling of the event *)
(* loop: a timer that is due expires, and the probe a pass awaits settles    *)

SpecMonitorFair ==
    /\ SpecMonitor
    /\ WF_vars(\E t \in Due, page \in PageStates, capable \in BOOLEAN :
                  CallRoom /\ checkAndSetReady(t, page, capable))
    /\ WF_vars(\E c \in Pending, outcome \in {"array", "other", "throws"}, info \in BOOLEAN :
                  checkAndSetReady_probed(c, outcome, info))

\* the passes of the monitor that are scheduled or suspended at their probe
MonitorRun ==
    {t \in Due : t.kind = "monitor"} \cup {c \in Pending : c.op = "checkAndSetReady"}

\* C34, as claimed: no pass of a run is later than the 60th (the pass called
\* with retryCount = n is the (n + 1)-th pass of its run)
C34_SixtyPasses ==
    \A x \in MonitorRun : x.n + 1 <= maxRetries

\* C34, amended: a run makes at most maxRetries + 1 passes, the first and
\* maxRetries retries; a pass that promotes, finds the account Ready or is
\* the last one leaves no pass scheduled; and every run comes to its end
C34_MonitorEnds ==
    /\ [](\A x \in MonitorRun : x.n <= maxRetries)
    /\ [][(step'.op = "checkAndSetReady" /\ step'.err \in {"none", "noop", "exhausted"})
             => MonitorRun' = {}]_vars
    /\ (MonitorRun # {}) ~> (MonitorRun = {})

\* the last pass of a run that never saw the probe succeed has returned
C34_Witness ==
    /\ step = Done("checkAndSetReady", 1, "exhausted")
    /\ MonitorRun = {}
    /\ ~acct[1].isReady /\ acct[1].isAuthenticated

\* C35: the step in which an initialization of an account fails (its client
\* rejects the authentication, or the handshake throws) leaves the account
\* with isInitializing = false and emits a failure event for the account
C35_FailureAnnounced ==
    [][\A a \in DOMAIN acct :
          (/\ step'.acc = a
           /\ \/ step'.op = "on_auth_failure"
              \/ step'.err = "InitializationFailed")
              => /\ ~acct'[a].isInitializing
                 /\ \E i \in 1..Len(emitted') :
                       /\ emitted'[i].accountId = a
                       /\ emitted'[i].kind \in {"auth_failure", "init_failure"}]_vars

\* C36: a switchAccount(id) call on a known id makes id the active account in
\* memory and in the account store; it starts an initialization of the
\* account exactly when the account is not initializing and has no client or
\* a client that is not Ready; on a Ready account that holds a client it
\* constructs no client and destroys none
C36_SwitchInitializes ==
    [][\A a \in Range(accounts) :
          (step'.op = "switchAccount" /\ step'.acc = a /\ NewCall) =>
              /\ activeAccountId' = a
              /\ store'.activeAccountId = a
              /\ (step'.err = "pending" /\ acct'[a].isInitializing
                  /\ \E c \in BagToSet(calls') :
                        /\ c.op = "initializeAccount" /\ c.acc = a /\ c.via = "switch"
                        /\ calls' = BagAdd(calls, c))
                 <=> (/\ ~acct[a].isInitializing
                      /\ acct[a].client = NoHandle \/ ~acct[a].isReady)
              /\ (acct[a].isReady /\ acct[a].client # NoHandle)
                    => /\ handles' = handles
                       /\ acct'[a].client = acct[a].client]_vars

\* a switch to a Ready account that holds its client returned at once
C36_Witness ==
    /\ step = Done("switchAccount", swRun.id, "none")
    /\ swRun.calls = 1 /\ swRun.inits = 0
    /\ acct[swRun.id].isReady /\ acct[swRun.id].client # NoHandle
    /\ activeAccountId = swRun.id
    /\ LiveHandles(swRun.id) # {}

----------------------------------------------------------------------------
(* SpecCorroborate: one stored account is switched to and its client         *)
(* authenticates; getChats is called as time passes, and the client answers  *)
(* with its chats, with an empty array, or with an error                     *)

NextCorroborate ==
    \/ \E a \in {1} : FacadeSwitchRoom(a) /\ switchAccount(a)
    \/ \E c \in Pending : initializeAccount_resolved(c)
    \/ \E h \in DOMAIN handles : TimerRoom /\ NoMonitor /\ on_authenticated(h)
    \/ \E h \in DOMAIN handles : on_disconnected(h)
    \/ \E env \in {ClientUp} : CallRoom /\ getChats(env)
    \/ \E c \in Pending : getChats_fetched(c)
    \/ \E c \in Pending : getChats_fetched_empty(c)
    \/ \E c \in Pending : getChats_caught(c)
    \/ ClockRoom /\ Tick

SpecCorroborate == InitStatus /\ [][NextCorroborate]_vars

\* C37: a getChats step makes the account Ready only when its fetch returned
\* a non-empty array and the account was not Ready; that step clears
\* isInitializing and emits one Ready event; a getChats step on a Ready
\* account emits none
C37_PromotesOnChats ==
    [][\A a \in DOMAIN acct :
          (step'.op = "getChats" /\ step'.acc = a) =>
              /\ (~acct[a].isReady /\ acct'[a].isReady)
                    => /\ step'.err = "fetched" /\ step'.ret \notin {Null, EmptyList}
                       /\ step'.ret # NoChats(step'.ret.h, step'.ret.at)
                       /\ ~acct'[a].isInitializing
                       /\ emitted' = <<Ev("ready", a)>>
              /\ acct[a].isReady => emitted' = <<>>]_vars

\* C38: every record the ledger holds is in the ledger after any step, under
\* its message id and with the deletedAt it was created with
C38_LedgerImmutable ==
    [][\A i \in 1..Len(deletedMessages) :
          \E j \in 1..Len(deletedMessages') :
              /\ deletedMessages'[j].id = deletedMessages[i].id
              /\ deletedMessages'[j].deletedAt = deletedMessages[i].deletedAt]_vars

\* C39: no account is Ready without being authenticated
C39_ReadyIsAuthenticated ==
    \A a \in DOMAIN acct : acct[a].isReady => acct[a].isAuthenticated

----------------------------------------------------------------------------
(* SpecEmpty: the steps of Spec on a manager constructed without a store     *)
(* file                                                                      *)

InitEmpty ==
    /\ loadAccountsConfig(0, NoId, {})
    /\ InitRest({})

SpecEmpty == InitEmpty /\ [][Next]_vars

\* C40: the active pointer is null or the id of an account of the map, and it
\* is null only when the map is empty
C40_ActiveExists ==
    /\ activeAccountId = NoId \/ Has(activeAccountId)
    /\ activeAccountId = NoId => Len(accounts) = 0

\* the active account was removed while a switch to it was still suspended in
\* its handshake, and the pointer moved to the account that remains
C40_Witness ==
    /\ step.op = "deleteAccount" /\ step.err = "none" /\ step.was = step.acc
    /\ Len(accounts) > 0 /\ activeAccountId = accounts[1]
    /\ \E c \in Pending : c.op = "initializeAccount" /\ c.acc = step.acc /\ c.via = "switch"

====
